---------------------------- MODULE Spec2Model ----------------------------
(***************************************************************************)
(* Runtime configuration resolution, request execution and tool guarding   *)
(* of the DSPy runner (superoptix/runners/dspy_runner.py and               *)
(* superoptix/runners/dspy_runtime_helpers.py).                            *)
(*                                                                         *)
(* Strings that the code slices (model identifiers such as                 *)
(* "ollama_chat/llama3") are sequences of their "/"-separated segments, so  *)
(* that startswith, split and the f-string prefixes are computed as the    *)
(* code computes them.  The empty sequence is the empty string (and None,  *)
(* both falsy).  Provider names and environment variable names are plain   *)
(* strings; "" is the empty string (and None).  A credential is named by   *)
(* the environment variable its value was read from.                       *)
(***************************************************************************)
EXTENDS Integers, Sequences, FiniteSets, TLC

VARIABLES
    rpc,        \* resolver: "idle" | "resolved"
    call,       \* resolver: the arguments of _resolve_dspy_lm_params
    env,        \* process environment: the set of variables that are set
    resolved,   \* resolver: what the call returned or raised
    req,        \* request: the inputs of DSPyRunner.run and what it finds on disk
    reqPc,      \* request: position of the control thread inside run
    stages,     \* request: the stages run so far, in order
    query,      \* request: query_for_program, as the list of its parts
    pState,     \* invocation: the state dict shared with the worker
    wPc,        \* invocation: position of the worker thread
    deadlinePassed, \* invocation: "no", or how join's deadline found the worker:
                    \* "notdone" | "done"
    invOutcome, \* invocation: what _run_program_with_timeout did
    prediction, \* request: the prediction handed to coercion
    result,     \* request: the result dict being assembled
    reqReturn,  \* request: what run returned to its caller
    memInit,    \* request: how _ensure_memory_initialized ended, "none" before it ran
    recall,     \* request: how the retrieval and the memory recall ended
    predObj,    \* request: the output attributes of the prediction object
    tool,       \* tool guard: the wrapped tool (name, declared schema, timeout setting)
    tkwargs,    \* tool guard: the caller's keyword arguments
    tpc,        \* tool guard: position of _wrapped
    attempt,    \* tool guard: number of the current invocation of the tool
    invocations,\* tool guard: the keyword arguments of each invocation of the tool
    tState,     \* tool guard: the state dict of the current _run_with_timeout
    twPc,       \* tool guard: position of the current worker thread
    tDeadline,  \* tool guard: per attempt, "no" or how the deadline found the worker
    trace,      \* tool guard: the stages passed to _emit_tool_trace
    firstExc,   \* tool guard: the exception the first attempt ended with
    userCache,  \* tool guard: current_user_cache, "" when empty
    tOutcome,   \* tool guard: what _wrapped returned or raised
    ppIn,       \* coercion: the arguments of postprocess_prediction
    ppPc,       \* coercion: "idle" | "done"
    ppOut,      \* coercion: the dict postprocess_prediction returned
    vIn,        \* validation: the arguments of validate_prediction_result
    vPc,        \* validation: "idle" | "done"
    vOut,       \* validation: the payload validate_prediction_result returned
    opt,        \* optimize: the arguments of DSPyRunner.optimize and what it finds on disk
    optPc,      \* optimize: position of the control thread inside optimize
    optSteps,   \* optimize: the steps taken so far, in order
    optFile,    \* optimize: the optimized-state file (exists, written by this call)
    optResult,  \* optimize: the optimization_result dict
    optReturn,  \* optimize: "none" | "returned" | "raised"
    mIn,        \* metric: the gold example, the prediction and the output fields
    mPc,        \* metric: "idle" | "done"
    mOut,       \* metric: the quality score gepa_metric computed
    adIn,       \* adapter: the resolved adapter configuration and the installed dspy
    adPc,       \* adapter: "idle" | "done"
    adBuilds,   \* adapter: the calls of _build_dspy_adapter, in order
    adOut,      \* adapter: how _configure_dspy_adapter ended
    gkIn, \* optimizer arguments: the GEPA configuration and the parameters GEPA accepts
    gkPc, \* optimizer arguments: "idle" | "done"
    gkOut, \* optimizer arguments: the keyword arguments forwarded to GEPA and to compile
    fbCfg, \* ImplicitFeedbackManager.config: enabled, session_resolver
    fbCalls, \* _session_calls: session id -> timestamps
    fbClock, \* time.time()
    fbThreads, \* per thread: position in track_tool_call and its locals
    fbDone, \* per session: the number of calls that returned an event
    fbOverlap, \* whether two calls of track_tool_call have overlapped
    dspySettings, \* dspy.settings: the process-wide lm and adapter
    toolTraceEmitter, \* _TOOL_TRACE_EMITTER: the request whose emitter is installed, or None
    creq, \* per concurrent request: its position in run and its locals
    fpIn, \* _find_pipeline_file: whether pipelines_dir exists and the files in it
    fpPc, \* _find_pipeline_file: "idle" or "done"
    fpOut, \* _find_pipeline_file: the path returned or the error raised
    osIn, \* run: the optimization arguments, the optimized file and the loaded module
    osPc, \* run: "idle", "selected" or "done", for the optimization status
    osUse, \* run: use_optimized and runtime_optimize after the selection
    osStatus, \* run: optimization_status
    osLoaded \* whether load() put the persisted state into the program

resolverVars == <<rpc, call, env, resolved>>

recallVars == <<memInit, recall>>

runVars == <<req, reqPc, stages, query, pState, wPc, deadlinePassed, invOutcome,
             prediction, result, reqReturn, memInit, recall, predObj>>

toolVars == <<tool, tkwargs, tpc, attempt, invocations, tState, twPc, tDeadline,
              trace, firstExc, userCache, tOutcome>>

pureVars == <<ppIn, ppPc, ppOut, vIn, vPc, vOut>>

metricVars == <<mIn, mPc, mOut>>

optVars == <<opt, optPc, optSteps, optFile, optResult, optReturn, mIn, mPc, mOut>>

adapterVars == <<adIn, adPc, adBuilds, adOut>>

gepaVars == <<gkIn, gkPc, gkOut>>

feedbackVars == <<fbCfg, fbCalls, fbClock, fbThreads, fbDone, fbOverlap>>

concurrentVars == <<dspySettings, toolTraceEmitter, creq>>

pipelineVars == <<fpIn, fpPc, fpOut>>

statusVars == <<osIn, osPc, osUse, osStatus, osLoaded>>

\* the components that are modelled on their own
restVars == <<adapterVars, gepaVars, feedbackVars, concurrentVars, pipelineVars, statusVars>>

vars == <<rpc, call, env, resolved, req, reqPc, stages, query, pState, wPc,
          deadlinePassed, invOutcome, prediction, result, reqReturn, memInit, recall, predObj,
          tool, tkwargs, tpc, attempt, invocations, tState, twPc, tDeadline,
          trace, firstExc, userCache, tOutcome,
          ppIn, ppPc, ppOut, vIn, vPc, vOut,
          opt, optPc, optSteps, optFile, optResult, optReturn, mIn, mPc, mOut,
          adIn, adPc, adBuilds, adOut,
          gkIn, gkPc, gkOut,
          fbCfg, fbCalls, fbClock, fbThreads, fbDone, fbOverlap,
          dspySettings, toolTraceEmitter, creq,
          fpIn, fpPc, fpOut,
          osIn, osPc, osUse, osStatus, osLoaded>>

-----------------------------------------------------------------------------
(* Input domains of the resolver *)

Absent == "<absent>"

SpecProviders == {Absent, "", "ollama", "Ollama", "local", "openai", "google", "together"}
SpecModels == {<<>>, <<"m">>, <<"org", "m">>, <<"ollama_chat", "m">>}
ModelOverrides == {<<>>, <<"mo">>, <<"ollama", "mo">>, <<"gemini", "mo">>}
ProviderOverrides == {"", " ", "ollama", "openai", "google-genai"}
RuntimeModes == {"", "auto", "local", "cloud"}
Purposes == {"task", "teacher"}
CredentialVars == {"GEMINI_API_KEY", "GOOGLE_API_KEY", "OPENAI_API_KEY"}
DefaultModelVars == {"SUPEROPTIX_DSPY_TASK_MODEL", "SUPEROPTIX_DSPY_TEACHER_MODEL",
                     "SUPEROPTIX_DSPY_CLOUD_TASK_MODEL", "SUPEROPTIX_DSPY_CLOUD_TEACHER_MODEL"}
Environments == {c \cup d : c \in SUBSET CredentialVars, d \in {{}, DefaultModelVars}}

-----------------------------------------------------------------------------
(* String helpers *)

\* str(x).strip().lower()
StripLower(s) ==
    CASE s = " " -> ""
      [] s = "Ollama" -> "ollama"
      [] s = "Structured " -> "structured"
      [] s = "Warn_Only " -> "warn_only"
      [] s = "JSON " -> "json"
      [] OTHER -> s

\* model.startswith(pfx + "/")
StartsWith(model, pfx) == Len(model) >= 2 /\ model[1] = pfx

\* "/" in model
HasSlash(model) == Len(model) >= 2

\* os.getenv(name, default) for a model name
GetenvModel(e, name, default) == IF name \in e THEN <<"$" \o name>> ELSE <<default>>

\* os.getenv(name) for a credential: the value is named by its variable
Getenv(e, name) == IF name \in e THEN name ELSE ""

LocalFamily == {"ollama", "local"}


-----------------------------------------------------------------------------
(* _resolve_dspy_lm_params, step by step in the order of the code *)

\* lm_config.get("provider", "ollama") normalised, then the provider
\* override and the provider implied by the model override's prefix
ProviderAfterOverrides(specProvider, po, mo) ==
    LET p0 == IF specProvider = Absent THEN "ollama" ELSE StripLower(specProvider)
        p1 == IF po # "" THEN StripLower(po) ELSE p0
    IN  IF mo # <<>>
        THEN IF StartsWith(mo, "ollama_chat") \/ StartsWith(mo, "ollama") THEN "ollama"
             ELSE IF StartsWith(mo, "gemini") \/ StartsWith(mo, "models") THEN "google-genai"
             ELSE p1
        ELSE p1

\* model after the model override
ModelAfterOverrides(specModel, mo) == IF mo # <<>> THEN mo ELSE specModel

\* (runtime_mode or "auto").lower()
NormRuntimeMode(mode) == IF mode = "" THEN "auto" ELSE mode

\* if runtime_mode == "local" and not provider: provider = "ollama"
LocalModeProvider(mode, provider) ==
    IF mode = "local" /\ provider = "" THEN "ollama" ELSE provider

\* the condition under which cloud mode switches to the cloud default provider
CloudSwitchApplies(mode, po, specProvider, provider) ==
    /\ mode = "cloud"
    /\ po = ""
    /\ specProvider = Absent
    /\ provider \in {"", "ollama", "local"}

CloudDefaultModel(e, purpose) ==
    IF purpose = "teacher"
    THEN GetenvModel(e, "SUPEROPTIX_DSPY_CLOUD_TEACHER_MODEL", "gemini-2.5-flash")
    ELSE GetenvModel(e, "SUPEROPTIX_DSPY_CLOUD_TASK_MODEL", "gemini-2.5-flash-lite")

LocalDefaultModel(e, purpose) ==
    IF purpose = "teacher"
    THEN GetenvModel(e, "SUPEROPTIX_DSPY_TEACHER_MODEL", "llama3.1:8b")
    ELSE GetenvModel(e, "SUPEROPTIX_DSPY_TASK_MODEL", "llama3.1:8b")

\* faulty variant of CloudRejectsLocal: the cloud check forgets "ollama"
CloudRejectsLocalMut(mode, provider) == mode = "cloud" /\ provider = "local"

\* if runtime_mode == "cloud" and provider in {"ollama", "local"}: raise
CloudRejectsLocal(mode, provider) == mode = "cloud" /\ provider \in LocalFamily

\* if provider in {"google", "google-genai"}: provider = "google-genai"
CanonGoogle(provider) == IF provider \in {"google", "google-genai"} THEN "google-genai" ELSE provider

\* if provider == "ollama" and not allow_local_ollama: raise
LocalNotAuthorized(provider, allow) == provider = "ollama" /\ ~allow

OllamaModelName(model) ==
    IF StartsWith(model, "ollama_chat") THEN model ELSE <<"ollama_chat">> \o model

GeminiModelName(model) ==
    IF StartsWith(model, "gemini") THEN model
    ELSE IF StartsWith(model, "models") THEN <<"gemini">> \o Tail(model)
    ELSE IF HasSlash(model) THEN <<"gemini", model[Len(model)]>>
    ELSE <<"gemini">> \o model

ApiKeyEnvMap == [p \in {"openai", "anthropic", "azure", "mistral", "cohere", "groq", "deepseek"} |->
    CASE p = "openai" -> "OPENAI_API_KEY"
      [] p = "anthropic" -> "ANTHROPIC_API_KEY"
      [] p = "azure" -> "AZURE_OPENAI_API_KEY"
      [] p = "mistral" -> "MISTRAL_API_KEY"
      [] p = "cohere" -> "COHERE_API_KEY"
      [] p = "groq" -> "GROQ_API_KEY"
      [] p = "deepseek" -> "DEEPSEEK_API_KEY"]

\* api_key_env_map.get(provider); "" is None
ApiKeyEnv(provider) == IF provider \in DOMAIN ApiKeyEnvMap THEN ApiKeyEnvMap[provider] ELSE ""

\* the credential the generic branch reads
GenericApiKey(e, provider) ==
    IF ApiKeyEnv(provider) # "" THEN Getenv(e, ApiKeyEnv(provider)) ELSE Getenv(e, "OPENAI_API_KEY")

GenericModelName(provider, model) == IF HasSlash(model) THEN model ELSE <<provider>> \o model

Raised(err, provider, model) ==
    [ok |-> FALSE, error |-> err, provider |-> provider, model |-> model,
     model_name |-> <<>>, api_key |-> ""]

Returned(provider, model, name, key) ==
    [ok |-> TRUE, error |-> "", provider |-> provider, model |-> model,
     model_name |-> name, api_key |-> key]

\* The call as a whole.  provider and model are the values of the code's
\* local variables when it returns or raises; model_name and api_key are
\* the returned parameters.
ResolveDspyLmParams(c, e) ==
    LET provider1 == ProviderAfterOverrides(c.spec_provider, c.provider_override, c.model_override)
        model1 == ModelAfterOverrides(c.spec_model, c.model_override)
        mode == NormRuntimeMode(c.runtime_mode)
        provider2 == LocalModeProvider(mode, provider1)
        switch == CloudSwitchApplies(mode, c.provider_override, c.spec_provider, provider2)
        provider3 == IF switch THEN "google-genai" ELSE provider2
        model3 == IF switch /\ model1 = <<>> THEN CloudDefaultModel(e, c.purpose) ELSE model1
        provider4 == IF model3 = <<>> /\ provider3 \in {"ollama", "local", ""} THEN "ollama" ELSE provider3
        model4 == IF model3 # <<>> THEN model3
                  ELSE IF provider3 \in {"ollama", "local", ""} THEN LocalDefaultModel(e, c.purpose)
                  ELSE CloudDefaultModel(e, c.purpose)
        provider5 == CanonGoogle(provider4)
    IN  IF CloudRejectsLocal(mode, provider4)
        THEN Raised("CloudModeLocalProvider", provider4, model4)
        ELSE IF LocalNotAuthorized(provider5, c.allow_local_ollama)
        THEN Raised("LocalProviderNotAuthorized", provider5, model4)
        ELSE IF provider5 = "ollama"
        THEN Returned(provider5, model4, OllamaModelName(model4), "")
        ELSE IF provider5 = "google-genai"
        THEN LET key == IF Getenv(e, "GEMINI_API_KEY") # "" THEN Getenv(e, "GEMINI_API_KEY")
                        ELSE Getenv(e, "GOOGLE_API_KEY")
             IN  IF key = "" THEN Raised("MissingCredential", provider5, model4)
                 ELSE Returned(provider5, model4, GeminiModelName(model4), key)
        ELSE IF ApiKeyEnv(provider5) # "" /\ GenericApiKey(e, provider5) = ""
        THEN Raised("MissingCredential", provider5, model4)
        ELSE Returned(provider5, model4, GenericModelName(provider5, model4), GenericApiKey(e, provider5))

Null == "<null>"

NoState == [done |-> FALSE, result |-> Null, error |-> Null]

\* a dict without keys
EmptyDict == <<>>

NoAssertions ==
    [enabled |-> FALSE, mode |-> Absent, required_fields |-> <<>>, non_empty |-> <<>>,
     enum |-> <<>>, max_length |-> <<>>, custom_regex |-> <<>>,
     metric_weight |-> [ty |-> "none", s |-> <<>>, n |-> 0]]

\* a playbook that declares nothing: one output field named response
NoPlaybook ==
    [output_fields |-> <<"response">>, output_mode |-> Absent, types |-> EmptyDict,
     assertions |-> NoAssertions]

NoRequest ==
    [pipeline_exists |-> TRUE, rag_enabled |-> FALSE, memory_enabled |-> FALSE,
     has_postprocess |-> FALSE, has_validate |-> FALSE, timeout_env |-> "<unset>",
     runtime_mode |-> "", compiled_mode |-> "auto", provider_override |-> "",
     compiled_provider |-> "", allow_local_ollama |-> FALSE, playbook |-> NoPlaybook]

NoRecall == [rag |-> "none", memory |-> "none"]

\* no request is running
RunIdle ==
    /\ req = NoRequest
    /\ reqPc = "idle"
    /\ stages = <<>>
    /\ query = <<>>
    /\ pState = NoState
    /\ wPc = "none"
    /\ deadlinePassed = "no"
    /\ invOutcome = Null
    /\ prediction = Null
    /\ result = Null
    /\ reqReturn = Null
    /\ memInit = "none"
    /\ recall = NoRecall
    /\ predObj = <<>>

NoError == [type |-> Null, has400 |-> FALSE, origin |-> Null]

NoToolState == [done |-> FALSE, result |-> Null, error |-> NoError]

NoTool == [name |-> "other_tool", schema |-> {}, has_get_user |-> FALSE, timeout_env |-> "<unset>"]

NoOutcome == [kind |-> Null, value |-> Null, exc |-> NoError]

\* no tool call is running
ToolIdle ==
    /\ tool = NoTool
    /\ tkwargs = <<>>
    /\ tpc = "idle"
    /\ attempt = 0
    /\ invocations = <<>>
    /\ tState = NoToolState
    /\ twPc = "none"
    /\ tDeadline = <<"no", "no">>
    /\ trace = <<>>
    /\ firstExc = NoError
    /\ userCache = ""
    /\ tOutcome = NoOutcome

NoPostprocess ==
    [res |-> EmptyDict, output_fields |-> <<>>, output_mode |-> Absent, types |-> EmptyDict]

NoValidate == [res |-> EmptyDict, cfg |-> NoAssertions]

\* no helper call is running
PureIdle ==
    /\ ppIn = NoPostprocess
    /\ ppPc = "idle"
    /\ ppOut = EmptyDict
    /\ vIn = NoValidate
    /\ vPc = "idle"
    /\ vOut = EmptyDict

\* the state of optimization_result when optimize starts
NoOptResult == [success |-> FALSE, error |-> "None", note |-> "None",
                training_examples |-> 0, score |-> "None", optimizer |-> "None"]

NoOptimize == [exists |-> FALSE, force |-> FALSE, module |-> "native",
               playbook_exists |-> FALSE, fs_scenarios |-> <<"absent">>,
               scenarios |-> <<"absent">>, has_save |-> FALSE]

NoFile == [exists |-> FALSE, written |-> FALSE]

NoHook == [kind |-> "none", score |-> [num |-> 1, den |-> 1]]

NoMetric == [gold |-> EmptyDict, pred |-> EmptyDict, output_fields |-> <<>>,
             weight |-> [ty |-> "none", s |-> <<>>, n |-> 0], hook |-> NoHook]

NoScore == [returned |-> [num |-> 0, den |-> 1], counted |-> FALSE,
            quality |-> [num |-> 0, den |-> 1], assertion |-> [num |-> 0, den |-> 1]]

\* no optimization and no metric computation is running
OptIdle ==
    /\ opt = NoOptimize
    /\ optPc = "idle"
    /\ optSteps = <<>>
    /\ optFile = NoFile
    /\ optResult = NoOptResult
    /\ optReturn = "none"
    /\ mIn = NoMetric
    /\ mPc = "idle"
    /\ mOut = NoScore

Missing == [ty |-> "missing", s |-> <<>>, n |-> 0]

NoAdapter == [configured |-> FALSE, mode |-> "<absent>", type |-> "<absent>",
              fallback_adapter |-> "<absent>", retry_on_parse_error |-> Missing,
              module |-> "", tools_mode |-> "none", prefer_structured |-> FALSE,
              failing |-> {}, configure_fails |-> FALSE]

NoAdapterOutcome == [status |-> "none", type |-> "", retry |-> 0]

AdapterIdle ==
    /\ adIn = NoAdapter
    /\ adPc = "idle"
    /\ adBuilds = <<>>
    /\ adOut = NoAdapterOutcome

NoGepa == [auto |-> "<absent>", max_full_evals |-> "None", max_metric_calls |-> "None",
           reflection_minibatch_size |-> "None", track_stats |-> "None",
           init_params |-> {}, compile_params |-> {}]

NoKwargs == [init |-> {}, compile |-> {}, auto |-> "None"]

GepaIdle ==
    /\ gkIn = NoGepa
    /\ gkPc = "idle"
    /\ gkOut = NoKwargs

NoFeedbackConfig == [enabled |-> FALSE, resolver |-> "<absent>"]

NoSessionCalls == [s \in {} |-> <<>>]

NoThreads == [t \in {} |-> 0]

FeedbackIdle ==
    /\ fbCfg = NoFeedbackConfig
    /\ fbCalls = NoSessionCalls
    /\ fbClock = 0
    /\ fbThreads = NoThreads
    /\ fbDone = NoSessionCalls
    /\ fbOverlap = FALSE

NoSettings == [lm |-> "None", adapter |-> "None"]

NoRequests == [r \in {} |-> 0]

ConcurrentIdle ==
    /\ dspySettings = NoSettings
    /\ toolTraceEmitter = "None"
    /\ creq = NoRequests

NoDirectory == [exists |-> FALSE, files |-> {}]

NoPath == <<>>

PipelineIdle ==
    /\ fpIn = NoDirectory
    /\ fpPc = "idle"
    /\ fpOut = NoPath

NoStatusInput ==
    [use_optimization |-> FALSE, runtime_optimize |-> FALSE, force_runtime |-> FALSE,
     optimized_exists |-> FALSE, native |-> FALSE, has_load |-> FALSE, load_ok |-> FALSE,
     train_ok |-> FALSE]

NoSelection == [use_optimized |-> FALSE, runtime_optimize |-> FALSE]

NoStatus ==
    [used_pre_optimized |-> FALSE, runtime_optimization |-> FALSE,
     optimization_available |-> FALSE, optimization_used |-> FALSE]

StatusIdle ==
    /\ osIn = NoStatusInput
    /\ osPc = "idle"
    /\ osUse = NoSelection
    /\ osStatus = NoStatus
    /\ osLoaded = FALSE

\* no component modelled on its own is running
RestIdle ==
    /\ AdapterIdle
    /\ GepaIdle
    /\ FeedbackIdle
    /\ ConcurrentIdle
    /\ PipelineIdle
    /\ StatusIdle

\* the other components of Adapter
AdapterOthers == GepaIdle /\ FeedbackIdle /\ ConcurrentIdle /\ PipelineIdle /\ StatusIdle

AdapterOthersFrame == UNCHANGED <<gepaVars, feedbackVars, concurrentVars, pipelineVars, statusVars>>

\* the other components of Gepa
GepaOthers == AdapterIdle /\ FeedbackIdle /\ ConcurrentIdle /\ PipelineIdle /\ StatusIdle

GepaOthersFrame == UNCHANGED <<adapterVars, feedbackVars, concurrentVars, pipelineVars, statusVars>>

\* the other components of Feedback
FeedbackOthers == AdapterIdle /\ GepaIdle /\ ConcurrentIdle /\ PipelineIdle /\ StatusIdle

FeedbackOthersFrame == UNCHANGED <<adapterVars, gepaVars, concurrentVars, pipelineVars, statusVars>>

\* the other components of Concurrent
ConcurrentOthers == AdapterIdle /\ GepaIdle /\ FeedbackIdle /\ PipelineIdle /\ StatusIdle

ConcurrentOthersFrame == UNCHANGED <<adapterVars, gepaVars, feedbackVars, pipelineVars, statusVars>>

\* the other components of Pipeline
PipelineOthers == AdapterIdle /\ GepaIdle /\ FeedbackIdle /\ ConcurrentIdle /\ StatusIdle

PipelineOthersFrame == UNCHANGED <<adapterVars, gepaVars, feedbackVars, concurrentVars, statusVars>>

\* the other components of Status
StatusOthers == AdapterIdle /\ GepaIdle /\ FeedbackIdle /\ ConcurrentIdle /\ PipelineIdle

StatusOthersFrame == UNCHANGED <<adapterVars, gepaVars, feedbackVars, concurrentVars, pipelineVars>>

NotResolved == [ok |-> FALSE, error |-> "<pending>", provider |-> "", model |-> <<>>,
                model_name |-> <<>>, api_key |-> ""]

Calls ==
    [spec_provider : SpecProviders, spec_model : SpecModels,
     model_override : ModelOverrides, provider_override : ProviderOverrides,
     runtime_mode : RuntimeModes, purpose : Purposes, allow_local_ollama : BOOLEAN]

ResolverInit ==
    /\ RestIdle
    /\ rpc = "idle"
    /\ call \in Calls
    /\ env \in Environments
    /\ resolved = NotResolved
    /\ RunIdle
    /\ ToolIdle
    /\ PureIdle
    /\ OptIdle

Resolve ==
    /\ rpc = "idle"
    /\ resolved' = ResolveDspyLmParams(call, env)
    /\ rpc' = "resolved"
    /\ UNCHANGED <<call, env>>
    /\ UNCHANGED runVars
    /\ UNCHANGED toolVars
    /\ UNCHANGED pureVars
    /\ UNCHANGED optVars
    /\ UNCHANGED restVars

ResolverNext == Resolve

SpecResolver == ResolverInit /\ [][ResolverNext]_vars

-----------------------------------------------------------------------------
(* Properties of the resolver *)

ResolvedOk == rpc = "resolved" /\ resolved.ok

CallMode == NormRuntimeMode(call.runtime_mode)

\* C1: a resolution requested with runtime_mode=cloud that succeeds never
\* ends on a local-only provider (ollama or local), whatever the spec
\* provider, the overrides and the purpose.
Thm_C1_CloudNeverLocal ==
    (ResolvedOk /\ CallMode = "cloud") => resolved.provider \notin LocalFamily

\* a cloud-mode call that started from the local default provider and succeeded
Wit_C1_CloudNeverLocal ==
    /\ ResolvedOk
    /\ CallMode = "cloud"
    /\ call.spec_provider = Absent
    /\ call.provider_override = ""
    /\ resolved.provider = "google-genai"

\* C2: a resolution that ends on a local provider without the
\* local-compilation flag fails, and every resolution requested with
\* runtime_mode=local and no flag fails with LocalProviderNotAuthorized.
Orig_C2_LocalNeedsFlag ==
    (rpc = "resolved" /\ ~call.allow_local_ollama) =>
        /\ resolved.provider \in LocalFamily => ~resolved.ok
        /\ CallMode = "local" => resolved.error = "LocalProviderNotAuthorized"

\* the credential variables that belong to a provider
OwnCredentialVars(provider) ==
    IF provider = "google-genai" THEN {"GEMINI_API_KEY", "GOOGLE_API_KEY"}
    ELSE IF ApiKeyEnv(provider) # "" THEN {ApiKeyEnv(provider)}
    ELSE {}

IsCloudProvider(provider) == provider \notin LocalFamily \cup {""}

\* C3: a resolution that ends on a cloud provider whose credential variable
\* is not set fails with MissingCredential; parameters returned for a cloud
\* provider always carry that provider's own, non-empty credential.
Orig_C3_CredentialRequired ==
    (rpc = "resolved" /\ IsCloudProvider(resolved.provider)
        /\ resolved.error \notin {"CloudModeLocalProvider", "LocalProviderNotAuthorized"}) =>
        /\ OwnCredentialVars(resolved.provider) \cap env = {} =>
              (~resolved.ok /\ resolved.error = "MissingCredential")
        /\ resolved.ok => resolved.api_key \in OwnCredentialVars(resolved.provider)

\* C4: a resolution requested with runtime_mode=local that succeeds returns
\* a local-capable provider, whatever the spec and the overrides name.
Orig_C4_LocalForcesLocal ==
    (ResolvedOk /\ CallMode = "local") => resolved.provider \in LocalFamily

\* providers that name the same backend
ProviderFamily(p) ==
    IF StripLower(p) \in LocalFamily THEN "ollama" ELSE CanonGoogle(StripLower(p))

Supplied(p) == p # Absent /\ StripLower(p) # ""

ImpliesProvider(mo) ==
    \/ StartsWith(mo, "ollama_chat") \/ StartsWith(mo, "ollama")
    \/ StartsWith(mo, "gemini") \/ StartsWith(mo, "models")

\* C5: model and provider each come from the highest-precedence source that
\* supplies one: override, then the spec block, then the purpose's
\* environment default, then the hard-coded default chosen by runtime_mode.
Orig_C5_Precedence ==
    ResolvedOk =>
        /\ call.model_override # <<>> => resolved.model = call.model_override
        /\ (call.model_override = <<>> /\ call.spec_model # <<>>) =>
              resolved.model = call.spec_model
        /\ (call.model_override = <<>> /\ call.spec_model = <<>>) =>
              /\ CallMode = "local" => resolved.model = LocalDefaultModel(env, call.purpose)
              /\ CallMode = "cloud" => resolved.model = CloudDefaultModel(env, call.purpose)
              /\ resolved.model \in {LocalDefaultModel(env, call.purpose),
                                     CloudDefaultModel(env, call.purpose)}
        /\ Supplied(call.provider_override) =>
              ProviderFamily(resolved.provider) = ProviderFamily(call.provider_override)
        /\ (~Supplied(call.provider_override) /\ ~ImpliesProvider(call.model_override)
                /\ Supplied(call.spec_provider)) =>
              ProviderFamily(resolved.provider) = ProviderFamily(call.spec_provider)

-----------------------------------------------------------------------------
(* Python values and strings of the runtime helpers                        *)
(* (superoptix/runners/dspy_runtime_helpers.py).  A string value is the    *)
(* sequence of its characters; a float is its value in tenths; a list or a *)
(* dict is its length.                                                     *)

PyNone == [ty |-> "none", s |-> <<>>, n |-> 0]

PyStr(s) == [ty |-> "str", s |-> s, n |-> 0]

PyInt(n) == [ty |-> "int", s |-> <<>>, n |-> n]

PyFloat(tenths) == [ty |-> "float", s |-> <<>>, n |-> tenths]

PyBool(b) == [ty |-> "bool", s |-> <<>>, n |-> IF b THEN 1 ELSE 0]

PyList(len) == [ty |-> "list", s |-> <<>>, n |-> len]

PyDict(len) == [ty |-> "dict", s |-> <<>>, n |-> len]

\* the outcome of a parse: a value, or the exception int(), float() and
\* json.loads raise
ParseError == [ty |-> "error", s |-> <<>>, n |-> 0]

Whitespace == {" ", "\n"}

Digits == <<"0", "1", "2", "3", "4", "5", "6", "7", "8", "9">>

UpperCase == <<"A", "B", "C", "D", "E", "F", "G", "H", "I", "J", "K", "L", "M",
               "N", "O", "P", "Q", "R", "S", "T", "U", "V", "W", "X", "Y", "Z">>

LowerCase == <<"a", "b", "c", "d", "e", "f", "g", "h", "i", "j", "k", "l", "m",
               "n", "o", "p", "q", "r", "s", "t", "u", "v", "w", "x", "y", "z">>

\* str.lower, one character
LowerChar(c) ==
    IF \E i \in 1..Len(UpperCase) : UpperCase[i] = c
    THEN LowerCase[CHOOSE i \in 1..Len(UpperCase) : UpperCase[i] = c]
    ELSE c

\* str.lower
Lower(s) == [i \in 1..Len(s) |-> LowerChar(s[i])]

\* str.lstrip(chars)
RECURSIVE LStrip(_, _)
LStrip(s, chars) ==
    IF s # <<>> /\ s[1] \in chars THEN LStrip(Tail(s), chars) ELSE s

\* str.rstrip(chars)
RECURSIVE RStrip(_, _)
RStrip(s, chars) ==
    IF s # <<>> /\ s[Len(s)] \in chars THEN RStrip(SubSeq(s, 1, Len(s) - 1), chars) ELSE s

\* str.strip(chars); str.strip() strips whitespace
StripChars(s, chars) == RStrip(LStrip(s, chars), chars)

Strip(s) == StripChars(s, Whitespace)

\* s.startswith(p)
StartsWithStr(s, p) == Len(s) >= Len(p) /\ SubSeq(s, 1, Len(p)) = p

\* s.endswith(p)
EndsWithStr(s, p) == Len(s) >= Len(p) /\ SubSeq(s, Len(s) - Len(p) + 1, Len(s)) = p

IsDigit(c) == \E i \in 1..Len(Digits) : Digits[i] = c

DigitValue(c) == (CHOOSE i \in 1..Len(Digits) : Digits[i] = c) - 1

AllDigits(s) == s # <<>> /\ \A i \in 1..Len(s) : IsDigit(s[i])

\* the number a string of digits denotes
RECURSIVE DigitsValue(_)
DigitsValue(s) ==
    IF s = <<>> THEN 0
    ELSE 10 * DigitsValue(SubSeq(s, 1, Len(s) - 1)) + DigitValue(s[Len(s)])

\* a leading sign and the rest
Sign(s) == IF s # <<>> /\ s[1] = "-" THEN -1 ELSE 1

Unsigned(s) == IF s # <<>> /\ s[1] \in {"-", "+"} THEN Tail(s) ELSE s

\* int(s) for a string: optional sign and decimal digits, ValueError otherwise
ParseInt(s) ==
    IF AllDigits(Unsigned(s)) THEN PyInt(Sign(s) * DigitsValue(Unsigned(s))) ELSE ParseError

DotAt(s) == IF \E i \in 1..Len(s) : s[i] = "." THEN CHOOSE i \in 1..Len(s) : s[i] = "." ELSE 0

\* float(s) for a string: optional sign, digits and at most one fraction
\* digit, ValueError otherwise
ParseFloat(s) ==
    LET u == Unsigned(s)
        d == DotAt(u)
    IN  IF d = 0
        THEN IF AllDigits(u) THEN PyFloat(Sign(s) * 10 * DigitsValue(u)) ELSE ParseError
        ELSE IF /\ AllDigits(SubSeq(u, 1, d - 1))
                /\ Len(u) = d + 1
                /\ IsDigit(u[d + 1])
             THEN PyFloat(Sign(s) * (10 * DigitsValue(SubSeq(u, 1, d - 1)) + DigitValue(u[d + 1])))
             ELSE ParseError

\* int(x) for a float: truncation towards zero
TruncateTenths(t) == IF t >= 0 THEN t \div 10 ELSE -((-t) \div 10)

\* the character that makes a code fence
Backtick == "<backtick>"

\* _strip_code_fences
StripCodeFences(text) ==
    LET Fence == <<Backtick, Backtick, Backtick>>
        c0 == Strip(text)
        c1 == IF StartsWithStr(c0, Fence) THEN Strip(StripChars(c0, {Backtick})) ELSE c0
        nl == IF \E i \in 1..Len(c1) : c1[i] = "\n"
              THEN CHOOSE i \in 1..Len(c1) : c1[i] = "\n" /\ \A j \in 1..(i - 1) : c1[j] # "\n"
              ELSE 0
        c2 == IF StartsWithStr(c0, Fence) /\ nl > 0 THEN SubSeq(c1, nl + 1, Len(c1)) ELSE c1
        c3 == IF EndsWithStr(c2, Fence) THEN SubSeq(c2, 1, Len(c2) - 3) ELSE c2
    IN  Strip(c3)

\* the elements of a JSON array of single digits: d,d,...,d
IsDigitList(s) ==
    /\ Len(s) % 2 = 1
    /\ \A i \in 1..Len(s) : IF i % 2 = 1 THEN IsDigit(s[i]) ELSE s[i] = ","

\* json.loads on the JSON texts of the model: a number, true, false, null,
\* an array of digits, {} and {"k":d}; every other text raises
JsonLoads(text) ==
    LET s == Strip(text)
        u == Unsigned(s)
    IN  CASE s = <<"t", "r", "u", "e">> -> PyBool(TRUE)
          [] s = <<"f", "a", "l", "s", "e">> -> PyBool(FALSE)
          [] s = <<"n", "u", "l", "l">> -> PyNone
          [] s = <<"[", "]">> -> PyList(0)
          [] Len(s) >= 3 /\ s[1] = "[" /\ s[Len(s)] = "]"
                /\ IsDigitList(SubSeq(s, 2, Len(s) - 1)) -> PyList((Len(s) - 1) \div 2)
          [] s = <<"{", "}">> -> PyDict(0)
          [] Len(s) = 7 /\ SubSeq(s, 1, 2) = <<"{", "\"">> /\ SubSeq(s, 4, 5) = <<"\"", ":">>
                /\ s[3] \in {"k"} /\ IsDigit(s[6]) /\ s[7] = "}" -> PyDict(1)
          [] s # <<>> /\ s[1] # "+" /\ ParseFloat(s) # ParseError
                /\ (Len(u) >= 2 => ~(u[1] = "0" /\ IsDigit(u[2]))) ->
                IF ParseInt(s) # ParseError THEN ParseInt(s) ELSE ParseFloat(s)
          [] OTHER -> ParseError

TrueWords == { <<"t", "r", "u", "e">>, <<"1">>, <<"y", "e", "s">>, <<"y">> }

FalseWords == { <<"f", "a", "l", "s", "e">>, <<"0">>, <<"n", "o">>, <<"n">> }

\* faulty variant of CoerceBool: the case of the word is not folded
CoerceBoolMut(value) ==
    IF value.ty = "str" /\ Strip(value.s) \in TrueWords THEN PyBool(TRUE)
    ELSE IF value.ty = "str" /\ Strip(value.s) \in FalseWords THEN PyBool(FALSE)
    ELSE value

\* _coerce_bool
CoerceBool(value) ==
    IF value.ty = "bool" THEN value
    ELSE IF value.ty = "str" /\ Lower(Strip(value.s)) \in TrueWords THEN PyBool(TRUE)
    ELSE IF value.ty = "str" /\ Lower(Strip(value.s)) \in FalseWords THEN PyBool(FALSE)
    ELSE value

\* a parsed value, or the raw value when the parse raised (except Exception)
OrRaw(parsed, value) == IF parsed = ParseError THEN value ELSE parsed

\* _coerce_value, the try block: one plain type hint
CoerceSimple(value, hint) ==
    CASE hint = <<"int">> ->
            IF value.ty = "int" THEN value
            ELSE IF value.ty = "float" THEN PyInt(TruncateTenths(value.n))
            ELSE IF value.ty = "str" THEN OrRaw(ParseInt(Strip(value.s)), value)
            ELSE value
      [] hint = <<"float">> ->
            IF value.ty = "float" THEN value
            ELSE IF value.ty = "int" THEN PyFloat(10 * value.n)
            ELSE IF value.ty = "str" THEN OrRaw(ParseFloat(Strip(value.s)), value)
            ELSE value
      [] hint = <<"bool">> -> CoerceBool(value)
      [] hint[1] = "list[" \/ hint = <<"list">> ->
            IF value.ty = "list" THEN value
            ELSE IF value.ty = "str"
                 THEN LET parsed == JsonLoads(StripCodeFences(value.s))
                      IN  IF parsed.ty = "list" THEN parsed
                          ELSE IF parsed.ty = "dict" THEN PyList(1)
                          ELSE value
                 ELSE value
      [] hint[1] = "dict[" \/ hint = <<"dict">> ->
            IF value.ty = "dict" THEN value
            ELSE IF value.ty = "str"
                 THEN LET parsed == JsonLoads(StripCodeFences(value.s))
                      IN  IF parsed.ty = "dict" THEN parsed ELSE value
                 ELSE value
      [] OTHER -> value

\* "|" in hint
HasBar(hint) == \E i \in 1..Len(hint) : hint[i] = "|"

\* hint.split("|"), the first part and the rest
FirstBar(hint) == CHOOSE i \in 1..Len(hint) : hint[i] = "|" /\ \A j \in 1..(i - 1) : hint[j] # "|"

RECURSIVE SplitBar(_)
SplitBar(hint) ==
    IF ~HasBar(hint) THEN <<hint>>
    ELSE <<SubSeq(hint, 1, FirstBar(hint) - 1)>>
            \o SplitBar(SubSeq(hint, FirstBar(hint) + 1, Len(hint)))

RECURSIVE CoerceValue(_, _)
RECURSIVE FirstConverted(_, _, _)

\* _coerce_value, the loop over the parts of a union: the first part that
\* converts the value wins
FirstConverted(value, parts, i) ==
    IF i > Len(parts) THEN value
    ELSE LET converted == CoerceValue(value, parts[i])
         IN  IF converted # value THEN converted ELSE FirstConverted(value, parts, i + 1)

\* _coerce_value
CoerceValue(value, hint) ==
    IF value = PyNone THEN PyNone
    ELSE IF hint = <<>> \/ hint = <<"str">> THEN value
    ELSE IF hint[1] = "Optional[" /\ hint[Len(hint)] = "]"
         THEN CoerceValue(value, SubSeq(hint, 2, Len(hint) - 1))
    ELSE IF HasBar(hint) THEN FirstConverted(value, SplitBar(hint), 1)
    ELSE CoerceSimple(value, hint)

\* str(cfg.get("output_mode", "simple")).strip().lower()
OutputMode(mode) == IF mode = Absent THEN "simple" ELSE StripLower(mode)

\* field_types.get(field, "str")
TypeHint(types, field) == IF field \in DOMAIN types THEN types[field] ELSE <<"str">>

\* postprocess_prediction, the loop over output_fields
RECURSIVE CoerceFields(_, _, _, _)
CoerceFields(processed, output_fields, types, i) ==
    IF i > Len(output_fields) THEN processed
    ELSE LET field == output_fields[i]
         IN  CoerceFields(
                 IF field \in DOMAIN processed
                 THEN [processed EXCEPT ![field] = CoerceValue(processed[field], TypeHint(types, field))]
                 ELSE processed,
                 output_fields, types, i + 1)

\* postprocess_prediction
PostprocessPrediction(res, output_fields, output_mode, types) ==
    IF OutputMode(output_mode) # "structured" THEN res
    ELSE CoerceFields(res, output_fields, types, 1)

\* _is_non_empty
IsNonEmpty(value) ==
    CASE value.ty = "none" -> FALSE
      [] value.ty = "str" -> Strip(value.s) # <<>>
      [] value.ty \in {"list", "dict"} -> value.n > 0
      [] OTHER -> TRUE

\* the texts of the model
S_true == <<"t", "r", "u", "e">>
S_True_ == <<" ", "T", "r", "u", "e", "\n">>
S_YES == <<"Y", "E", "S">>
S_y == <<"y">>
S_1 == <<"1">>
S_false == <<"f", "a", "l", "s", "e">>
S_No == <<"N", "o">>
S_n == <<"n">>
S_0 == <<"0">>
S_maybe == <<"m", "a", "y", "b", "e">>
S_42 == <<"4", "2">>
S_neg7_ == <<" ", "-", "7", " ">>
S_3p5 == <<"3", ".", "5">>
S_empty == <<>>
S_list == <<"[", "1", ",", "2", "]">>
S_fenced == <<Backtick, Backtick, Backtick, "j", "s", "o", "n", "\n", "[", "1", "]", "\n",
              Backtick, Backtick, Backtick>>
S_dict == <<"{", "\"", "k", "\"", ":", "1", "}">>
S_blank == <<" ">>
S_xyz == <<"x", "y", "z">>
S_abc == <<"a", "b", "c">>

\* str(n) for an integer
RECURSIVE NatDigits(_)
NatDigits(n) ==
    IF n < 10 THEN <<Digits[n + 1]>> ELSE NatDigits(n \div 10) \o <<Digits[(n % 10) + 1]>>

\* str(value): the text of a string, an int, a bool or None; a float has one
\* fraction digit; a list or a dict prints as its brackets and its length
PyStrOf(value) ==
    CASE value.ty = "str" -> value.s
      [] value.ty = "int" ->
            IF value.n < 0 THEN <<"-">> \o NatDigits(-value.n) ELSE NatDigits(value.n)
      [] value.ty = "bool" ->
            IF value.n = 1 THEN <<"T", "r", "u", "e">> ELSE <<"F", "a", "l", "s", "e">>
      [] value.ty = "none" -> <<"N", "o", "n", "e">>
      [] value.ty = "float" ->
            (IF value.n < 0 THEN <<"-">> ELSE <<>>)
                \o NatDigits((IF value.n < 0 THEN -value.n ELSE value.n) \div 10)
                \o <<".">> \o NatDigits((IF value.n < 0 THEN -value.n ELSE value.n) % 10)
      [] value.ty = "list" -> <<"[">> \o NatDigits(value.n) \o <<"]">>
      [] OTHER -> <<"{">> \o NatDigits(value.n) \o <<"}">>

\* the patterns of the model: one that a text of digits matches, one that a
\* text containing x matches, and one that does not compile
RegexDigits == "^[0-9]+$"

RegexHasX == "x"

RegexInvalid == "("

\* re.search(pattern, value) is not None, or "error" for re.error
RegexSearch(pattern, s) ==
    CASE pattern = RegexDigits -> IF AllDigits(s) THEN "match" ELSE "nomatch"
      [] pattern = RegexHasX -> IF \E i \in 1..Len(s) : s[i] = "x" THEN "match" ELSE "nomatch"
      [] OTHER -> "error"

\* str(cfg.get("mode", "fail_fast")).strip().lower() or "fail_fast", and
\* fail_fast for every mode that is not known
AssertionMode(mode) ==
    IF mode # Absent /\ StripLower(mode) = "warn_only" THEN "warn_only" ELSE "fail_fast"

\* the accumulators of validate_prediction_result
NoChecks == [errors |-> <<>>, total |-> 0, failed |-> 0]

Passed(acc) == [acc EXCEPT !.total = @ + 1]

Failed(acc, rule, field) ==
    [acc EXCEPT !.total = @ + 1, !.failed = @ + 1,
                !.errors = Append(@, [rule |-> rule, field |-> field])]

\* the loop over required_fields
RECURSIVE CheckRequired(_, _, _, _)
CheckRequired(acc, data, fields, i) ==
    IF i > Len(fields) THEN acc
    ELSE CheckRequired(
             IF fields[i] \notin DOMAIN data \/ data[fields[i]] = PyNone
             THEN Failed(acc, "required", fields[i]) ELSE Passed(acc),
             data, fields, i + 1)

\* the loop over non_empty
RECURSIVE CheckNonEmpty(_, _, _, _)
CheckNonEmpty(acc, data, fields, i) ==
    IF i > Len(fields) THEN acc
    ELSE CheckNonEmpty(
             IF fields[i] \in DOMAIN data /\ ~IsNonEmpty(data[fields[i]])
             THEN Failed(acc, "non_empty", fields[i]) ELSE Passed(acc),
             data, fields, i + 1)

\* faulty variant of CheckEnum: a rule whose field is absent counts as passed
RECURSIVE CheckEnumMut(_, _, _, _)
CheckEnumMut(acc, data, rules, i) ==
    IF i > Len(rules) THEN acc
    ELSE LET field == rules[i][1]
             allowed == {PyStrOf(item) : item \in rules[i][2]}
         IN  CheckEnumMut(
                 IF field \notin DOMAIN data THEN Passed(acc)
                 ELSE IF PyStrOf(data[field]) \notin allowed
                      THEN Failed(acc, "enum", field) ELSE Passed(acc),
                 data, rules, i + 1)

\* the loop over enum: a rule whose field is absent is skipped
RECURSIVE CheckEnum(_, _, _, _)
CheckEnum(acc, data, rules, i) ==
    IF i > Len(rules) THEN acc
    ELSE LET field == rules[i][1]
             allowed == {PyStrOf(item) : item \in rules[i][2]}
         IN  CheckEnum(
                 IF field \notin DOMAIN data THEN acc
                 ELSE IF PyStrOf(data[field]) \notin allowed
                      THEN Failed(acc, "enum", field) ELSE Passed(acc),
                 data, rules, i + 1)

\* len(value) of a string or a collection
PyLen(value) == IF value.ty = "str" THEN Len(value.s) ELSE value.n

\* the loop over max_length: a rule whose field is absent is skipped
RECURSIVE CheckMaxLength(_, _, _, _)
CheckMaxLength(acc, data, rules, i) ==
    IF i > Len(rules) THEN acc
    ELSE LET field == rules[i][1]
             limit == rules[i][2]
         IN  CheckMaxLength(
                 IF field \notin DOMAIN data THEN acc
                 ELSE IF /\ data[field].ty \in {"str", "list", "dict"}
                         /\ limit.ty = "int"
                         /\ PyLen(data[field]) > limit.n
                      THEN Failed(acc, "max_length", field) ELSE Passed(acc),
                 data, rules, i + 1)

\* the loop over custom_regex: a rule whose field is absent is skipped
RECURSIVE CheckRegex(_, _, _, _)
CheckRegex(acc, data, rules, i) ==
    IF i > Len(rules) THEN acc
    ELSE LET field == rules[i][1]
             found == RegexSearch(rules[i][2], data[field].s)
         IN  CheckRegex(
                 IF field \notin DOMAIN data THEN acc
                 ELSE IF data[field].ty # "str" THEN Passed(acc)
                 ELSE IF found = "nomatch" THEN Failed(acc, "regex", field)
                 ELSE IF found = "error" THEN Failed(acc, "regex_invalid", field)
                 ELSE Passed(acc),
                 data, rules, i + 1)

\* faulty variant of Score: the share of the failed checks
ScoreMut(total, failed) ==
    IF total = 0 THEN [num |-> 1, den |-> 1] ELSE [num |-> failed, den |-> total]

\* 1.0 if checks_total == 0 else max(0.0, 1.0 - checks_failed / checks_total),
\* as the fraction num/den
Score(total, failed) ==
    IF total = 0 THEN [num |-> 1, den |-> 1]
    ELSE [num |-> IF total - failed < 0 THEN 0 ELSE total - failed, den |-> total]

MetricWeightDefault == [num |-> 3, den |-> 10]

\* float(value) in tenths, ParseError for TypeError and ValueError
ToFloat(value) ==
    CASE value.ty = "float" -> value
      [] value.ty \in {"int", "bool"} -> PyFloat(10 * value.n)
      [] value.ty = "str" -> ParseFloat(Strip(value.s))
      [] OTHER -> ParseError

\* float(cfg.get("metric_weight", 0.3)), 0.3 when the value is no number; a
\* missing key is written as None, which float rejects with the same outcome
MetricWeight(weight) ==
    IF ToFloat(weight) = ParseError THEN MetricWeightDefault
    ELSE [num |-> ToFloat(weight).n, den |-> 10]

\* validate_prediction_result
ValidatePredictionResult(data, cfg) ==
    IF ~cfg.enabled
    THEN [result |-> data, assertions_passed |-> TRUE, assertion_errors |-> <<>>,
          assertion_mode |-> "fail_fast", assertion_score |-> [num |-> 1, den |-> 1],
          checks_total |-> 0, checks_failed |-> 0,
          metric_weight |-> MetricWeight(cfg.metric_weight)]
    ELSE LET a1 == CheckRequired(NoChecks, data, cfg.required_fields, 1)
             a2 == CheckNonEmpty(a1, data, cfg.non_empty, 1)
             a3 == CheckEnum(a2, data, cfg.enum, 1)
             a4 == CheckMaxLength(a3, data, cfg.max_length, 1)
             a5 == CheckRegex(a4, data, cfg.custom_regex, 1)
         IN  [result |-> data, assertions_passed |-> Len(a5.errors) = 0,
              assertion_errors |-> a5.errors,
              assertion_mode |-> AssertionMode(cfg.mode),
              assertion_score |-> Score(a5.total, a5.failed),
              checks_total |-> a5.total, checks_failed |-> a5.failed,
              metric_weight |-> MetricWeight(cfg.metric_weight)]

-----------------------------------------------------------------------------
(* DSPyRunner.run, native program path *)

ProgramTimeoutDefault == 120

\* float(os.getenv(name, default)), falling back to the default when the
\* value does not parse
ParseTimeout(value, default) ==
    CASE value = "<unset>" -> default
      [] value = "0" -> 0
      [] value = "30" -> 30
      [] OTHER -> default

\* effective_runtime_mode: the caller's mode, or the compiled one when auto
EffectiveRuntimeMode(mode, compiled) ==
    IF NormRuntimeMode(mode) = "auto" THEN compiled ELSE NormRuntimeMode(mode)

\* provider_override or getattr(module, "PROVIDER_OVERRIDE", None)
EffectiveOverride(cli, compiled) == IF cli # "" THEN cli ELSE compiled

\* a playbook with one declared output, typed int, and one assertion rule
PlainPlaybook ==
    [output_fields |-> <<"response">>, output_mode |-> "structured",
     types |-> [k \in {"response"} |-> <<"int">>],
     assertions |-> [NoAssertions EXCEPT !.enabled = TRUE, !.mode = "fail_fast",
                                         !.non_empty = <<"response">>]]

Requests ==
    [pipeline_exists : BOOLEAN, rag_enabled : BOOLEAN, memory_enabled : BOOLEAN,
     has_postprocess : BOOLEAN, has_validate : BOOLEAN,
     timeout_env : {"<unset>", "0", "abc"},
     runtime_mode : {"", "cloud"}, compiled_mode : {"auto", "local"},
     provider_override : {"", "openai"}, compiled_provider : {"", "ollama"},
     allow_local_ollama : BOOLEAN, playbook : {PlainPlaybook}]

RunEnvironments == {{}, {"OPENAI_API_KEY", "GEMINI_API_KEY"}}

\* the resolver call run makes for a playbook that names a model only
RunCall(r) ==
    [spec_provider |-> Absent, spec_model |-> <<"m">>, model_override |-> <<>>,
     provider_override |-> EffectiveOverride(r.provider_override, r.compiled_provider),
     runtime_mode |-> EffectiveRuntimeMode(r.runtime_mode, r.compiled_mode),
     purpose |-> "task", allow_local_ollama |-> r.allow_local_ollama]

\* faulty variant of RunCatches: the exception escapes run
RunCatchesMut(exc) == exc

\* except FileNotFoundError / except Exception: report and return None
RunCatches(exc) == "None"

RunInit ==
    /\ RestIdle
    /\ rpc = "idle"
    /\ call = RunCall(NoRequest)
    /\ env \in RunEnvironments
    /\ resolved = NotResolved
    /\ req \in Requests
    /\ reqPc = "idle"
    /\ stages = <<>>
    /\ query = <<>>
    /\ pState = NoState
    /\ wPc = "none"
    /\ deadlinePassed = "no"
    /\ invOutcome = Null
    /\ prediction = Null
    /\ result = Null
    /\ reqReturn = Null
    /\ memInit = "none"
    /\ recall = NoRecall
    /\ predObj = <<>>
    /\ ToolIdle
    /\ PureIdle
    /\ OptIdle

\* the request ends with an exception caught by run
Fail(exc) ==
    /\ reqReturn' = RunCatches(exc)
    /\ reqPc' = "returned"

\* _ensure_memory_initialized: how the one initialisation of the runner ends
MemoryInitOutcomes(enabledInSpec) ==
    IF enabledInSpec THEN {"unavailable", "setup_error", "enabled"} ELSE {"disabled"}

\* the value _ensure_memory_initialized returns
EnsureMemoryInitialized(outcome) == outcome = "enabled"

StartRequest ==
    /\ reqPc = "idle"
    /\ IF req.pipeline_exists
       THEN /\ \E out \in MemoryInitOutcomes(req.memory_enabled) : memInit' = out
            /\ reqPc' = "configure"
            /\ UNCHANGED reqReturn
       ELSE /\ Fail("FileNotFoundError")
            /\ UNCHANGED memInit
    /\ UNCHANGED <<req, stages, query, pState, wPc, deadlinePassed, invOutcome, prediction, result>>
    /\ UNCHANGED recall
    /\ UNCHANGED resolverVars
    /\ UNCHANGED pureVars
    /\ UNCHANGED optVars
    /\ UNCHANGED restVars
    /\ UNCHANGED predObj
    /\ UNCHANGED toolVars

ConfigureLm ==
    /\ reqPc = "configure"
    /\ call' = RunCall(req)
    /\ resolved' = ResolveDspyLmParams(call', env)
    /\ rpc' = "resolved"
    /\ \E buildOk \in BOOLEAN :
          IF resolved'.ok /\ buildOk
          THEN reqPc' = "augment" /\ UNCHANGED reqReturn
          ELSE Fail(IF resolved'.ok THEN "BuildError" ELSE resolved'.error)
    /\ UNCHANGED <<req, stages, query, pState, wPc, deadlinePassed, invOutcome, prediction, result>>
    /\ UNCHANGED env
    /\ UNCHANGED recallVars
    /\ UNCHANGED predObj
    /\ UNCHANGED toolVars
    /\ UNCHANGED pureVars
    /\ UNCHANGED optVars
    /\ UNCHANGED restVars

\* _augment_query_with_context
AugmentQuery(q, text) == IF text = <<>> THEN q ELSE q \o text

\* _retrieve_context_text: how the retrieval ends when the spec enables it
RagOutcomes == {"unavailable", "setup_error", "recall_error", "empty", "text"}

\* _retrieve_memory_context_text: how the recall ends on an initialised memory
MemoryOutcomes == {"recall_error", "empty", "text"}

\* faulty variant of RecallText: a failed recall leaves an error text behind
RecallTextMut(outcome, text) ==
    IF outcome \in {"text", "recall_error"} THEN text ELSE <<>>

\* the text a recall returns: every early return and every except branch
\* returns ""
RecallText(outcome, text) == IF outcome = "text" THEN text ELSE <<>>

AugmentContext ==
    /\ reqPc = "augment"
    /\ \E ragOut \in (IF req.rag_enabled THEN RagOutcomes ELSE {"disabled"}),
          memOut \in (IF EnsureMemoryInitialized(memInit) THEN MemoryOutcomes ELSE {"skipped"}) :
          /\ recall' = [rag |-> ragOut, memory |-> memOut]
          /\ query' = AugmentQuery(AugmentQuery(<<"q">>, RecallText(ragOut, <<"rag">>)),
                                  RecallText(memOut, <<"mem">>))
    /\ stages' = Append(stages, "ContextAugmentation")
    /\ reqPc' = "invoke"
    /\ UNCHANGED <<req, pState, wPc, deadlinePassed, invOutcome, prediction, result, reqReturn>>
    /\ UNCHANGED memInit
    /\ UNCHANGED resolverVars
    /\ UNCHANGED pureVars
    /\ UNCHANGED optVars
    /\ UNCHANGED restVars
    /\ UNCHANGED predObj
    /\ UNCHANGED toolVars

ProgramOutcomes == {"pred", "ProgramError"}

\* the values a program leaves in an output attribute of its prediction
PredictionValues(field) ==
    CASE field = "summary" -> {PyNone, PyStr(S_empty), PyStr(S_blank), PyStr(S_abc), PyList(0)}
      [] field = "label" -> {PyNone, PyStr(S_42), PyInt(5)}
      [] OTHER -> {PyNone, PyStr(S_42)}

\* the prediction objects a program built for the playbook returns
Predictions(pb) ==
    LET names == {pb.output_fields[i] : i \in 1..Len(pb.output_fields)}
    IN  {attrs \in [names -> UNION {PredictionValues(n) : n \in names}] :
            \A n \in names : attrs[n] \in PredictionValues(n)}

\* str(prediction)
PredictionRepr == PyStr(<<"P", "r", "e", "d", "i", "c", "t", "i", "o", "n", "(", ")">>)

StartInvocation ==
    /\ reqPc = "invoke"
    /\ IF ParseTimeout(req.timeout_env, ProgramTimeoutDefault) <= 0
       THEN \E out \in ProgramOutcomes :
              /\ stages' = stages \o <<"Invocation", "InvocationEnd">>
              /\ IF out = "pred"
                 THEN /\ invOutcome' = "Ok"
                      /\ prediction' = out
                      /\ \E attrs \in Predictions(req.playbook) : predObj' = attrs
                      /\ reqPc' = "coerce"
                      /\ UNCHANGED reqReturn
                 ELSE /\ invOutcome' = "Error"
                      /\ Fail(out)
                      /\ UNCHANGED <<prediction, predObj>>
              /\ UNCHANGED <<pState, wPc>>
       ELSE /\ stages' = Append(stages, "Invocation")
            /\ pState' = NoState
            /\ wPc' = "running"
            /\ reqPc' = "join"
            /\ UNCHANGED <<invOutcome, prediction, reqReturn, predObj>>
    /\ UNCHANGED <<req, query, deadlinePassed, result>>
    /\ UNCHANGED resolverVars
    /\ UNCHANGED pureVars
    /\ UNCHANGED optVars
    /\ UNCHANGED restVars
    /\ UNCHANGED recallVars
    /\ UNCHANGED toolVars

\* _target: the program returns or raises
WorkerRun ==
    /\ wPc = "running"
    /\ \E out \in ProgramOutcomes :
          IF out = "pred"
          THEN /\ pState' = [pState EXCEPT !.result = out]
               /\ \E attrs \in Predictions(req.playbook) : predObj' = attrs
          ELSE /\ pState' = [pState EXCEPT !.error = out]
               /\ UNCHANGED predObj
    /\ wPc' = "stored"
    /\ UNCHANGED <<req, reqPc, stages, query, deadlinePassed, invOutcome, prediction, result, reqReturn>>
    /\ UNCHANGED resolverVars
    /\ UNCHANGED pureVars
    /\ UNCHANGED optVars
    /\ UNCHANGED restVars
    /\ UNCHANGED recallVars
    /\ UNCHANGED toolVars

\* _target: finally: state["done"] = True
WorkerDone ==
    /\ wPc = "stored"
    /\ pState' = [pState EXCEPT !.done = TRUE]
    /\ wPc' = "finishing"
    /\ UNCHANGED <<req, reqPc, stages, query, deadlinePassed, invOutcome, prediction, result, reqReturn>>
    /\ UNCHANGED resolverVars
    /\ UNCHANGED pureVars
    /\ UNCHANGED optVars
    /\ UNCHANGED restVars
    /\ UNCHANGED recallVars
    /\ UNCHANGED predObj
    /\ UNCHANGED toolVars

\* the worker thread ends
WorkerExit ==
    /\ wPc = "finishing"
    /\ wPc' = "exited"
    /\ UNCHANGED <<req, reqPc, stages, query, pState, deadlinePassed, invOutcome, prediction, result, reqReturn>>
    /\ UNCHANGED resolverVars
    /\ UNCHANGED pureVars
    /\ UNCHANGED optVars
    /\ UNCHANGED restVars
    /\ UNCHANGED recallVars
    /\ UNCHANGED predObj
    /\ UNCHANGED toolVars

\* thread.join(timeout) returns because the worker ended
JoinReturns ==
    /\ reqPc = "join"
    /\ wPc = "exited"
    /\ reqPc' = "check"
    /\ UNCHANGED <<req, stages, query, pState, wPc, deadlinePassed, invOutcome, prediction, result, reqReturn>>
    /\ UNCHANGED resolverVars
    /\ UNCHANGED pureVars
    /\ UNCHANGED optVars
    /\ UNCHANGED restVars
    /\ UNCHANGED recallVars
    /\ UNCHANGED predObj
    /\ UNCHANGED toolVars

\* thread.join(timeout) returns because the deadline expired
JoinTimesOut ==
    /\ reqPc = "join"
    /\ wPc # "exited"
    /\ deadlinePassed' = (IF pState.done THEN "done" ELSE "notdone")
    /\ reqPc' = "check"
    /\ UNCHANGED <<req, stages, query, pState, wPc, invOutcome, prediction, result, reqReturn>>
    /\ UNCHANGED resolverVars
    /\ UNCHANGED pureVars
    /\ UNCHANGED optVars
    /\ UNCHANGED restVars
    /\ UNCHANGED recallVars
    /\ UNCHANGED predObj
    /\ UNCHANGED toolVars

\* faulty variant of InvocationOutcome: looks at the result, not at done
InvocationOutcomeMut(st) ==
    IF st.result # Null THEN "Ok" ELSE IF st.error # Null THEN "Error" ELSE "Timeout"

\* what the code after join does with the state dict
InvocationOutcome(st) ==
    IF ~st.done THEN "Timeout" ELSE IF st.error # Null THEN "Error" ELSE "Ok"

CheckState ==
    /\ reqPc = "check"
    /\ invOutcome' = InvocationOutcome(pState)
    /\ stages' = Append(stages, "InvocationEnd")
    /\ IF invOutcome' = "Ok"
       THEN /\ prediction' = pState.result
            /\ reqPc' = "coerce"
            /\ UNCHANGED reqReturn
       ELSE /\ Fail(IF invOutcome' = "Timeout" THEN "TimeoutError" ELSE pState.error)
            /\ UNCHANGED prediction
    /\ UNCHANGED <<req, query, pState, wPc, deadlinePassed, result>>
    /\ UNCHANGED resolverVars
    /\ UNCHANGED pureVars
    /\ UNCHANGED optVars
    /\ UNCHANGED restVars
    /\ UNCHANGED recallVars
    /\ UNCHANGED predObj
    /\ UNCHANGED toolVars

\* _prediction_to_result, the loop over output_fields
RECURSIVE CollectFields(_, _, _, _)
CollectFields(res, attrs, output_fields, i) ==
    IF i > Len(output_fields) THEN res
    ELSE LET field == output_fields[i]
             value == IF field \in DOMAIN attrs THEN attrs[field] ELSE PyNone
         IN  CollectFields(IF value # PyNone THEN (field :> value) @@ res ELSE res,
                           attrs, output_fields, i + 1)

\* _prediction_to_result
PredictionToResult(attrs, output_fields) ==
    LET res == CollectFields(EmptyDict, attrs, output_fields, 1)
    IN  IF DOMAIN res = {} THEN ("response" :> PredictionRepr) ELSE res

NoPayload == [present |-> FALSE, payload |-> ValidatePredictionResult(EmptyDict, NoAssertions)]

\* _prediction_to_result, then the optional postprocess_prediction hook of
\* the compiled program, whose exception is caught
Coerce ==
    /\ reqPc = "coerce"
    /\ stages' = Append(stages, "Coercion")
    /\ \E hookOk \in BOOLEAN :
          LET raw == PredictionToResult(predObj, req.playbook.output_fields)
          IN  result' = [fields |-> IF req.has_postprocess /\ hookOk
                                    THEN PostprocessPrediction(raw, req.playbook.output_fields,
                                             req.playbook.output_mode, req.playbook.types)
                                    ELSE raw,
                         keys |-> {}, is_valid |-> FALSE, assertion |-> NoPayload]
    /\ reqPc' = "validate"
    /\ UNCHANGED <<req, query, pState, wPc, deadlinePassed, invOutcome, prediction, reqReturn>>
    /\ UNCHANGED resolverVars
    /\ UNCHANGED pureVars
    /\ UNCHANGED optVars
    /\ UNCHANGED restVars
    /\ UNCHANGED recallVars
    /\ UNCHANGED predObj
    /\ UNCHANGED toolVars

\* the optional validate_prediction_result hook of the compiled program,
\* whose exception is caught
Validate ==
    /\ reqPc = "validate"
    /\ stages' = Append(stages, "Validation")
    /\ \E hookOk \in BOOLEAN :
          result' = [result EXCEPT !.assertion =
                        IF req.has_validate /\ hookOk
                        THEN [present |-> TRUE,
                              payload |-> ValidatePredictionResult(result.fields,
                                                                   req.playbook.assertions)]
                        ELSE NoPayload]
    /\ reqPc' = "assemble"
    /\ UNCHANGED <<req, query, pState, wPc, deadlinePassed, invOutcome, prediction, reqReturn>>
    /\ UNCHANGED resolverVars
    /\ UNCHANGED pureVars
    /\ UNCHANGED optVars
    /\ UNCHANGED restVars
    /\ UNCHANGED recallVars
    /\ UNCHANGED predObj
    /\ UNCHANGED toolVars

\* any((isinstance(v, str) and bool(v.strip())) or
\*     (not isinstance(v, str) and v is not None) for v in result.values())
AnyValue(fields) ==
    \E k \in DOMAIN fields :
        \/ fields[k].ty = "str" /\ Strip(fields[k].s) # <<>>
        \/ fields[k].ty \notin {"str", "none"}

\* faulty variant of Narrowed: warn_only narrows as well
NarrowedMut(assertion) ==
    assertion.present /\ ~assertion.payload.assertions_passed

\* assertion_mode == "fail_fast" and not assertions_passed
Narrowed(assertion) ==
    /\ assertion.present
    /\ assertion.payload.assertion_mode = "fail_fast"
    /\ ~assertion.payload.assertions_passed

AssertionKeys ==
    {"_assertion_errors", "_assertion_mode", "_assertions_passed", "_assertion_score",
     "_assertion_checks_total", "_assertion_checks_failed"}

\* is_valid, the assertion entries, bookkeeping and return
Assemble ==
    /\ reqPc = "assemble"
    /\ stages' = Append(stages, "Done")
    /\ result' = [result EXCEPT
                     !.is_valid = AnyValue(result.fields) /\ ~Narrowed(result.assertion),
                     !.keys = {"is_valid"}
                                 \cup (IF result.assertion.present THEN AssertionKeys ELSE {})]
    /\ reqReturn' = "result"
    /\ reqPc' = "returned"
    /\ UNCHANGED <<req, query, pState, wPc, deadlinePassed, invOutcome, prediction>>
    /\ UNCHANGED resolverVars
    /\ UNCHANGED pureVars
    /\ UNCHANGED optVars
    /\ UNCHANGED restVars
    /\ UNCHANGED recallVars
    /\ UNCHANGED predObj
    /\ UNCHANGED toolVars

RunNext ==
    \/ StartRequest
    \/ ConfigureLm
    \/ AugmentContext
    \/ StartInvocation
    \/ WorkerRun
    \/ WorkerDone
    \/ WorkerExit
    \/ JoinReturns
    \/ JoinTimesOut
    \/ CheckState
    \/ Coerce
    \/ Validate
    \/ Assemble

SpecRun == RunInit /\ [][RunNext]_vars

\* the assertion blocks of the playbooks below
ResultAssertions ==
    { NoAssertions,
      [NoAssertions EXCEPT !.enabled = TRUE, !.mode = "fail_fast", !.non_empty = <<"summary">>],
      [NoAssertions EXCEPT !.enabled = TRUE, !.mode = "Warn_Only ", !.non_empty = <<"summary">>],
      [NoAssertions EXCEPT !.enabled = TRUE, !.mode = "strict",
                           !.required_fields = <<"summary", "label">>],
      [NoAssertions EXCEPT !.enabled = TRUE, !.mode = "warn_only",
                           !.required_fields = <<"label">>,
                           !.enum = << <<"label", {PyInt(5)}>> >>],
      [NoAssertions EXCEPT !.enabled = TRUE, !.mode = Absent,
                           !.max_length = << <<"summary", PyInt(2)>> >>,
                           !.custom_regex = << <<"label", RegexDigits>> >>] }

\* playbooks with two declared outputs
ResultPlaybooks ==
    [output_fields : { <<"summary", "label">> }, output_mode : {Absent, "structured"},
     types : { [k \in {"summary", "label"} |-> IF k = "label" THEN <<"int">> ELSE <<"str">>] },
     assertions : ResultAssertions]

\* requests that get as far as the invocation, over every playbook
ResultRequests ==
    [pipeline_exists : {TRUE}, rag_enabled : {FALSE}, memory_enabled : {FALSE},
     has_postprocess : BOOLEAN, has_validate : BOOLEAN,
     timeout_env : {"<unset>", "0"},
     runtime_mode : {""}, compiled_mode : {"auto"},
     provider_override : {"openai"}, compiled_provider : {""},
     allow_local_ollama : {FALSE}, playbook : ResultPlaybooks]

ResultInit ==
    /\ RestIdle
    /\ rpc = "idle"
    /\ call = RunCall(NoRequest)
    /\ env = {"OPENAI_API_KEY", "GEMINI_API_KEY"}
    /\ resolved = NotResolved
    /\ req \in ResultRequests
    /\ reqPc = "idle"
    /\ stages = <<>>
    /\ query = <<>>
    /\ pState = NoState
    /\ wPc = "none"
    /\ deadlinePassed = "no"
    /\ invOutcome = Null
    /\ prediction = Null
    /\ result = Null
    /\ reqReturn = Null
    /\ memInit = "none"
    /\ recall = NoRecall
    /\ predObj = <<>>
    /\ ToolIdle
    /\ PureIdle
    /\ OptIdle

SpecResult == ResultInit /\ [][RunNext]_vars

-----------------------------------------------------------------------------
(* Properties of a request *)

StageOrder ==
    <<"ContextAugmentation", "Invocation", "InvocationEnd", "Coercion", "Validation", "Done">>

IsPrefix(a, b) == Len(a) <= Len(b) /\ \A i \in 1..Len(a) : a[i] = b[i]

Ran(stage) == \E i \in 1..Len(stages) : stages[i] = stage

Detached == ParseTimeout(req.timeout_env, ProgramTimeoutDefault) > 0

\* C6: the stages of a request run in the order context augmentation,
\* invocation, coercion, validation, assembly, each after the previous one
\* has finished and none twice; coercion and validation never run when the
\* invocation failed or timed out.
Thm_C6_StageOrder ==
    /\ IsPrefix(stages, StageOrder)
    /\ reqPc \in {"join", "check"} => stages[Len(stages)] = "Invocation"
    /\ Ran("Coercion") =>
          /\ invOutcome = "Ok"
          /\ prediction # Null
          /\ Detached => (pState.done /\ pState.error = Null)
    /\ invOutcome \in {"Timeout", "Error"} =>
          ~Ran("Coercion") /\ ~Ran("Validation") /\ ~Ran("Done")

\* a request with both recalls that ran every stage
Wit_C6_StageOrder ==
    /\ reqPc = "returned"
    /\ stages = StageOrder
    /\ query = <<"q", "rag", "mem">>
    /\ Detached

\* C7 as stated: when the invocation is not complete at its deadline the
\* caller of the request gets Timeout raised, and nothing the worker
\* produces after the deadline becomes the outcome.
Orig_C7_TimeoutRaised ==
    deadlinePassed = "notdone" =>
        /\ invOutcome \in {Null, "Timeout"}
        /\ prediction = Null
        /\ reqPc = "returned" => reqReturn = "TimeoutError"

\* C7 amended: when the orchestrator finds the worker not done at its check
\* after the deadline wait, the invocation ends in Timeout, which run
\* catches: the caller gets None and no later stage runs; the worker is not
\* killed, and what it produces afterwards never becomes the outcome.
Thm_C7_TimeoutReturnsNone ==
    /\ (invOutcome # Null /\ Detached /\ ~pState.done) => invOutcome = "Timeout"
    /\ invOutcome = "Timeout" =>
          /\ deadlinePassed # "no"
          /\ reqPc = "returned"
          /\ reqReturn = "None"
          /\ prediction = Null
          /\ result = Null
          /\ ~Ran("Coercion")

\* the request timed out and the abandoned worker later produced a result
Wit_C7_TimeoutReturnsNone ==
    /\ reqPc = "returned"
    /\ invOutcome = "Timeout"
    /\ wPc = "exited"
    /\ pState.result # Null

RecallFailed(outcome) == outcome \in {"unavailable", "setup_error", "recall_error"}

Mentions(q, part) == \E i \in 1..Len(q) : q[i] = part

\* C11: a failure while recalling retrieval or memory context, a failure to
\* initialise the recall provider included, never fails the request: the
\* request goes on to the next step, the failed recall adds nothing to the
\* query, and when no recall returned text the program gets the original
\* query.
Thm_C11_RecallFailureIsEmpty ==
    [][ /\ (reqPc = "idle" /\ req.pipeline_exists) =>
              (reqPc' = "configure" /\ reqReturn' = Null)
        /\ reqPc = "augment" =>
              /\ reqPc' = "invoke"
              /\ reqReturn' = Null
              /\ RecallFailed(recall'.rag) => ~Mentions(query', "rag")
              /\ (RecallFailed(recall'.memory) \/ RecallFailed(memInit)) =>
                    ~Mentions(query', "mem")
              /\ (recall'.rag # "text" /\ recall'.memory # "text") => query' = <<"q">>
        /\ reqPc # "augment" => query' = query ]_vars

\* a request whose retrieval could not be set up and whose memory recall
\* raised, invoked with the original query and answered
Wit_C11_RecallFailureIsEmpty ==
    /\ recall.rag = "setup_error"
    /\ recall.memory = "recall_error"
    /\ Ran("Invocation")
    /\ query = <<"q">>
    /\ reqReturn = "result"

Answered == reqPc = "returned" /\ reqReturn = "result"

\* the mode the playbook asks for; fail_fast is the default
ConfiguredMode ==
    IF req.playbook.assertions.mode \in {"warn_only", "Warn_Only "} THEN "warn_only"
    ELSE "fail_fast"

\* some value of the result is neither None nor a blank string
SomeOutputValue ==
    \E k \in DOMAIN result.fields :
        /\ result.fields[k] # PyNone
        /\ result.fields[k].ty = "str" => Strip(result.fields[k].s) # <<>>

\* C15: a request whose validation ran is answered, not aborted; in
\* fail_fast mode a failed rule makes is_valid false; in warn_only mode the
\* failed rules are reported in the result and is_valid is what the output
\* values alone give.
Thm_C15_AssertionMode ==
    /\ (reqPc = "returned" /\ Ran("Validation")) => reqReturn = "result"
    /\ (Answered /\ result.assertion.present) =>
          /\ AssertionKeys \subseteq result.keys
          /\ result.assertion.payload.assertion_mode = ConfiguredMode
          /\ (ConfiguredMode = "fail_fast" /\ result.assertion.payload.checks_failed > 0) =>
                ~result.is_valid
          /\ ConfiguredMode = "warn_only" =>
                /\ result.is_valid <=> SomeOutputValue
                /\ Len(result.assertion.payload.assertion_errors)
                      = result.assertion.payload.checks_failed

\* the scenario of the spec: non_empty=[summary], summary="" and fail_fast,
\* next to a label that has a value
Wit_C15_AssertionMode ==
    /\ Answered
    /\ result.assertion.present
    /\ req.playbook.assertions.mode = "fail_fast"
    /\ req.playbook.assertions.non_empty = <<"summary">>
    /\ predObj["summary"] = PyStr(S_empty)
    /\ predObj["label"] = PyInt(5)
    /\ result.assertion.payload.checks_failed = 1
    /\ ~result.is_valid

\* a declared output field of the prediction that is not null and, when it is
\* a text, not blank
DeclaredOutputValue ==
    \E i \in 1..Len(req.playbook.output_fields) :
        LET f == req.playbook.output_fields[i]
        IN  /\ f \in DOMAIN predObj
            /\ predObj[f] # PyNone
            /\ predObj[f].ty = "str" => Strip(predObj[f].s) # <<>>

\* C16: every result run returns holds is_valid, and unless a failed
\* fail_fast assertion narrowed it, is_valid is true iff at least one
\* declared output field of the prediction is non-empty and non-null.
Orig_C16_IsValidIffDeclaredOutput ==
    Answered =>
        /\ "is_valid" \in result.keys
        /\ ~Narrowed(result.assertion) => (result.is_valid <=> DeclaredOutputValue)

-----------------------------------------------------------------------------
(* build_stackone_tools: the guard _wrapped around each tool, its retry    *)
(* arguments (_calendly_retry_kwargs) and _run_with_timeout                *)

ToolTimeoutDefault == 20

RetryToolName == "calendly_list_scheduled_events"

KeyPairs ==
    << <<"start_time", "end_time">>, <<"min_start_time", "max_start_time">>,
       <<"start", "end">>, <<"from", "to">>, <<"start_date", "end_date">> >>

TzKeys == <<"timezone", "tz", "time_zone">>

LimitKeys == <<"count", "limit", "page_size", "per_page">>

UserKeys == <<"user", "user_uri", "uri">>

\* retry_kwargs[k] = v
Assign(f, k, v) == (k :> v) @@ f

\* the loop over key_pairs: the first pair the schema knows and the caller
\* did not set gets the default window, then break
RECURSIVE WithDateWindow(_, _, _)
WithDateWindow(f, schema, i) ==
    IF i > Len(KeyPairs) THEN f
    ELSE LET a == KeyPairs[i][1]
             b == KeyPairs[i][2]
         IN  IF (a \in schema \/ b \in schema) /\ (a \notin DOMAIN f /\ b \notin DOMAIN f)
             THEN LET fa == IF a \in schema THEN Assign(f, a, "window_start") ELSE f
                  IN  IF b \in schema THEN Assign(fa, b, "window_end") ELSE fa
             ELSE WithDateWindow(f, schema, i + 1)

\* faulty variant of WithDefaults: the schema is not consulted
RECURSIVE WithDefaultsMut(_, _, _, _, _)
WithDefaultsMut(f, schema, keys, v, i) ==
    IF i > Len(keys) THEN f
    ELSE WithDefaultsMut(IF keys[i] \notin DOMAIN f THEN Assign(f, keys[i], v) ELSE f,
                         schema, keys, v, i + 1)

\* the loops over the timezone and the paging keys: every key the schema
\* knows and the arguments lack gets the default
RECURSIVE WithDefaults(_, _, _, _, _)
WithDefaults(f, schema, keys, v, i) ==
    IF i > Len(keys) THEN f
    ELSE WithDefaults(IF keys[i] \in schema /\ keys[i] \notin DOMAIN f
                      THEN Assign(f, keys[i], v) ELSE f,
                      schema, keys, v, i + 1)

\* the loop over the user keys: the first supported one gets the user uri
RECURSIVE WithUser(_, _, _, _)
WithUser(f, schema, uri, i) ==
    IF i > Len(UserKeys) THEN f
    ELSE IF UserKeys[i] \in schema /\ UserKeys[i] \notin DOMAIN f /\ uri # ""
         THEN Assign(f, UserKeys[i], uri)
         ELSE WithUser(f, schema, uri, i + 1)

\* _calendly_retry_kwargs, given the user uri the cache holds
CalendlyRetryKwargs(kwargs, schema, uri) ==
    LET f1 == WithDateWindow(kwargs, schema, 1)
        f2 == WithDefaults(f1, schema, TzKeys, "UTC", 1)
        f3 == WithDefaults(f2, schema, LimitKeys, "3", 1)
    IN  WithUser(f3, schema, uri, 1)

\* the exception raised by _run_with_timeout at its deadline
DeadlineError == [type |-> "TimeoutError", has400 |-> FALSE, origin |-> "deadline"]

\* the exception _wrapped raises from its except TimeoutError clause
GuardTimeout == [type |-> "TimeoutError", has400 |-> FALSE, origin |-> "guard"]

\* what the tool itself can do in one invocation
ToolResults ==
    {[result |-> "value", error |-> NoError]} \cup
    {[result |-> Null, error |-> [type |-> t, has400 |-> h, origin |-> "tool"]] :
        t \in {"Exception", "TimeoutError"}, h \in BOOLEAN}

\* faulty variant of RunWithTimeoutRaises: done is not consulted
RunWithTimeoutRaisesMut(st) == st.error

\* _run_with_timeout after join: the exception it raises, NoError to return
RunWithTimeoutRaises(st) ==
    IF ~st.done THEN DeadlineError ELSE st.error

\* __name == "calendly_list_scheduled_events" and "400" in err, inside
\* except Exception, which comes after except TimeoutError
Recognized(name, exc) ==
    /\ exc.type = "Exception"
    /\ name = RetryToolName
    /\ exc.has400

SchemaUniverse == {"end_time", "min_start_time", "timezone", "count", "user"}

KwargsUniverse == {"start_time", "timezone", "q"}

Tools ==
    [name : {RetryToolName, "other_tool"}, schema : SUBSET SchemaUniverse,
     has_get_user : BOOLEAN, timeout_env : {"<unset>", "0"}]

ToolSync == ParseTimeout(tool.timeout_env, ToolTimeoutDefault) <= 0

ToolInit ==
    /\ RestIdle
    /\ rpc = "idle"
    /\ call = RunCall(NoRequest)
    /\ env = {}
    /\ resolved = NotResolved
    /\ RunIdle
    /\ PureIdle
    /\ OptIdle
    /\ tool \in Tools
    /\ tkwargs \in {[k \in d |-> "caller"] : d \in SUBSET KwargsUniverse}
    /\ tpc = "idle"
    /\ attempt = 0
    /\ invocations = <<>>
    /\ tState = NoToolState
    /\ twPc = "none"
    /\ tDeadline = <<"no", "no">>
    /\ trace = <<>>
    /\ firstExc = NoError
    /\ userCache \in {"", "uri"}
    /\ tOutcome = NoOutcome

\* start one invocation of the tool through _run_with_timeout: inline when
\* the timeout is not positive, on a worker thread otherwise
Invoke(kw, n) ==
    /\ invocations' = Append(invocations, kw)
    /\ attempt' = n
    /\ IF ToolSync
       THEN /\ \E r \in ToolResults :
                 tState' = [done |-> TRUE, result |-> r.result, error |-> r.error]
            /\ twPc' = "none"
            /\ tpc' = "check"
       ELSE /\ tState' = NoToolState
            /\ twPc' = "running"
            /\ tpc' = "join"

\* _wrapped up to the first _run_with_timeout
CallTool ==
    /\ tpc = "idle"
    /\ trace' = Append(trace, "tool:start")
    /\ Invoke(tkwargs, 1)
    /\ UNCHANGED <<tool, tkwargs, tDeadline, firstExc, userCache, tOutcome>>
    /\ UNCHANGED resolverVars
    /\ UNCHANGED pureVars
    /\ UNCHANGED optVars
    /\ UNCHANGED restVars
    /\ UNCHANGED runVars

\* _target: the tool returns or raises
ToolWorkerRun ==
    /\ twPc = "running"
    /\ \E r \in ToolResults :
          tState' = [tState EXCEPT !.result = r.result, !.error = r.error]
    /\ twPc' = "stored"
    /\ UNCHANGED <<tool, tkwargs, tpc, attempt, invocations, tDeadline, trace, firstExc, userCache, tOutcome>>
    /\ UNCHANGED resolverVars
    /\ UNCHANGED pureVars
    /\ UNCHANGED optVars
    /\ UNCHANGED restVars
    /\ UNCHANGED runVars

\* _target: finally: state["done"] = True
ToolWorkerDone ==
    /\ twPc = "stored"
    /\ tState' = [tState EXCEPT !.done = TRUE]
    /\ twPc' = "finishing"
    /\ UNCHANGED <<tool, tkwargs, tpc, attempt, invocations, tDeadline, trace, firstExc, userCache, tOutcome>>
    /\ UNCHANGED resolverVars
    /\ UNCHANGED pureVars
    /\ UNCHANGED optVars
    /\ UNCHANGED restVars
    /\ UNCHANGED runVars

\* the worker thread ends
ToolWorkerExit ==
    /\ twPc = "finishing"
    /\ twPc' = "exited"
    /\ UNCHANGED <<tool, tkwargs, tpc, attempt, invocations, tState, tDeadline, trace, firstExc, userCache, tOutcome>>
    /\ UNCHANGED resolverVars
    /\ UNCHANGED pureVars
    /\ UNCHANGED optVars
    /\ UNCHANGED restVars
    /\ UNCHANGED runVars

\* thread.join(timeout) returns because the worker ended
ToolJoinReturns ==
    /\ tpc = "join"
    /\ twPc = "exited"
    /\ tpc' = "check"
    /\ UNCHANGED <<tool, tkwargs, attempt, invocations, tState, twPc, tDeadline, trace, firstExc, userCache, tOutcome>>
    /\ UNCHANGED resolverVars
    /\ UNCHANGED pureVars
    /\ UNCHANGED optVars
    /\ UNCHANGED restVars
    /\ UNCHANGED runVars

\* thread.join(timeout) returns because the deadline expired
ToolJoinTimesOut ==
    /\ tpc = "join"
    /\ twPc # "exited"
    /\ tDeadline' = [tDeadline EXCEPT ![attempt] = IF tState.done THEN "done" ELSE "notdone"]
    /\ tpc' = "check"
    /\ UNCHANGED <<tool, tkwargs, attempt, invocations, tState, twPc, trace, firstExc, userCache, tOutcome>>
    /\ UNCHANGED resolverVars
    /\ UNCHANGED pureVars
    /\ UNCHANGED optVars
    /\ UNCHANGED restVars
    /\ UNCHANGED runVars

Returns(v) == [kind |-> "return", value |-> v, exc |-> NoError]

Raises(e) == [kind |-> "raise", value |-> Null, exc |-> e]

\* _wrapped after the first _run_with_timeout: tool:ok and return, the
\* except TimeoutError clause, or the except Exception clause up to the
\* retry decision
CheckFirst ==
    /\ tpc = "check"
    /\ attempt = 1
    /\ LET exc == RunWithTimeoutRaises(tState)
       IN  /\ firstExc' = exc
           /\ IF exc = NoError
              THEN /\ trace' = Append(trace, "tool:ok")
                   /\ tOutcome' = Returns(tState.result)
                   /\ tpc' = "done"
              ELSE IF exc.type = "TimeoutError"
              THEN /\ trace' = Append(trace, "tool:error")
                   /\ tOutcome' = Raises(GuardTimeout)
                   /\ tpc' = "done"
              ELSE IF Recognized(tool.name, exc)
              THEN /\ tpc' = "retry"
                   /\ UNCHANGED <<trace, tOutcome>>
              ELSE /\ trace' = Append(trace, "tool:error")
                   /\ tOutcome' = Raises(exc)
                   /\ tpc' = "done"
    /\ UNCHANGED <<tool, tkwargs, attempt, invocations, tState, twPc, tDeadline, userCache>>
    /\ UNCHANGED resolverVars
    /\ UNCHANGED pureVars
    /\ UNCHANGED optVars
    /\ UNCHANGED restVars
    /\ UNCHANGED runVars

\* _calendly_retry_kwargs (the user lookup fills the cache or fails
\* silently), the tool:retry event and the second _run_with_timeout
Retry ==
    /\ tpc = "retry"
    /\ \E uri \in (IF userCache # "" THEN {userCache}
                   ELSE IF tool.has_get_user THEN {"", "uri"} ELSE {""}) :
          /\ userCache' = uri
          /\ Invoke(CalendlyRetryKwargs(tkwargs, tool.schema, uri), 2)
    /\ trace' = Append(trace, "tool:retry")
    /\ UNCHANGED <<tool, tkwargs, tDeadline, firstExc, tOutcome>>
    /\ UNCHANGED resolverVars
    /\ UNCHANGED pureVars
    /\ UNCHANGED optVars
    /\ UNCHANGED restVars
    /\ UNCHANGED runVars

\* faulty variant of BareRaise: the exception of the retry is raised
BareRaiseMut(exc, retry_exc) == retry_exc

\* the bare `raise` at the end of `except Exception as exc`, after the inner
\* `except Exception as retry_exc` block has ended
BareRaise(exc, retry_exc) == exc

\* _wrapped after the retry: tool:ok and return, or tool:error and the bare
\* raise, which re-raises the exception of the first attempt
CheckRetry ==
    /\ tpc = "check"
    /\ attempt = 2
    /\ IF RunWithTimeoutRaises(tState) = NoError
       THEN /\ trace' = Append(trace, "tool:ok")
            /\ tOutcome' = Returns(tState.result)
       ELSE /\ trace' = Append(trace, "tool:error")
            /\ tOutcome' = Raises(BareRaise(firstExc, RunWithTimeoutRaises(tState)))
    /\ tpc' = "done"
    /\ UNCHANGED <<tool, tkwargs, attempt, invocations, tState, twPc, tDeadline, firstExc, userCache>>
    /\ UNCHANGED resolverVars
    /\ UNCHANGED pureVars
    /\ UNCHANGED optVars
    /\ UNCHANGED restVars
    /\ UNCHANGED runVars

ToolNext ==
    \/ CallTool
    \/ ToolWorkerRun
    \/ ToolWorkerDone
    \/ ToolWorkerExit
    \/ ToolJoinReturns
    \/ ToolJoinTimesOut
    \/ CheckFirst
    \/ Retry
    \/ CheckRetry

SpecTool == ToolInit /\ [][ToolNext]_vars

-----------------------------------------------------------------------------
(* Properties of the tool guard *)

Count(seq, x) == Cardinality({i \in 1..Len(seq) : seq[i] = x})

\* C8 as stated: whenever the tool exceeds the per-call deadline, the guard
\* raises Timeout to the tool's caller, whether or when the tool completes.
Orig_C8_DeadlineRaisesTimeout ==
    (tpc = "done" /\ \E n \in 1..2 : tDeadline[n] = "notdone") =>
        (tOutcome.kind = "raise" /\ tOutcome.exc.type = "TimeoutError")

\* C8 amended: when the guard finds the first invocation not done at its
\* check after the deadline wait, it raises Timeout without waiting for the
\* tool, whatever the tool does later; a retry invocation found not done
\* ends with the first attempt's error re-raised.
Thm_C8_GuardTimeout ==
    /\ (tpc = "done" /\ attempt = 1 /\ ~tState.done) => tOutcome = Raises(GuardTimeout)
    /\ (tpc = "done" /\ attempt = 2 /\ ~tState.done) => tOutcome = Raises(firstExc)
    /\ (tpc \in {"retry", "done"} /\ firstExc = DeadlineError) =>
          /\ tpc = "done"
          /\ attempt = 1
          /\ tDeadline[1] # "no"
          /\ tOutcome = Raises(GuardTimeout)
          /\ Count(trace, "tool:error") = 1

\* the guard has raised Timeout while the tool is still running
Wit_C8_GuardTimeout ==
    /\ tpc = "done"
    /\ attempt = 1
    /\ twPc = "running"
    /\ tOutcome = Raises(GuardTimeout)

\* the first attempt ended with the recognized failure signature
RecognizedFailure == firstExc # NoError /\ Recognized(tool.name, firstExc)

\* C9: for the recognized failure signature the guard retries exactly once;
\* the retry's arguments are the caller's arguments unchanged plus defaults
\* whose names all belong to the tool's declared schema.
Thm_C9_RetryArguments ==
    /\ Len(invocations) <= 2
    /\ Len(invocations) >= 1 => invocations[1] = tkwargs
    /\ (tpc = "done" /\ RecognizedFailure) =>
          (Len(invocations) = 2 /\ Count(trace, "tool:retry") = 1)
    /\ Len(invocations) = 2 =>
          /\ RecognizedFailure
          /\ DOMAIN tkwargs \subseteq DOMAIN invocations[2]
          /\ \A k \in DOMAIN tkwargs : invocations[2][k] = tkwargs[k]
          /\ (DOMAIN invocations[2] \ DOMAIN tkwargs) \subseteq tool.schema
          /\ \A k \in DOMAIN invocations[2] \ DOMAIN tkwargs : invocations[2][k] # "caller"

\* a retry that kept the caller's timezone and added a window end, a page
\* size and the user
Wit_C9_RetryArguments ==
    /\ tpc = "done"
    /\ Len(invocations) = 2
    /\ DOMAIN tkwargs = {"start_time", "timezone", "q"}
    /\ tool.schema = SchemaUniverse
    /\ DOMAIN invocations[2] = {"start_time", "timezone", "q", "min_start_time", "count", "user"}

\* C10: a tool failure other than the recognized signature reaches the
\* tool's caller as the same error, after exactly one error event and with
\* no retry.
Orig_C10_FailurePropagates ==
    (tpc = "done" /\ firstExc.origin = "tool" /\ ~Recognized(tool.name, firstExc)) =>
        /\ tOutcome = Raises(firstExc)
        /\ Count(trace, "tool:error") = 1
        /\ Count(trace, "tool:retry") = 0
        /\ Len(invocations) = 1

\* C27: the tool is invoked at most twice, a second time only after a
\* first failure with the recognized signature and never after a timeout;
\* when the retry fails or times out, the caller gets the error of the first
\* attempt, after exactly one retry event and one error event.
Thm_C27_RetryOnce ==
    /\ Len(invocations) <= 2
    /\ Len(invocations) = 2 =>
          /\ firstExc # NoError
          /\ Recognized(tool.name, firstExc)
          /\ firstExc.type # "TimeoutError"
    /\ (tpc = "done" /\ firstExc # NoError /\ firstExc.type = "TimeoutError") =>
          (Len(invocations) = 1 /\ Count(trace, "tool:retry") = 0)
    /\ (tpc = "done" /\ attempt = 2 /\ RunWithTimeoutRaises(tState) # NoError) =>
          /\ tOutcome = Raises(firstExc)
          /\ firstExc.origin = "tool"
          /\ Count(trace, "tool:retry") = 1
          /\ Count(trace, "tool:error") = 1

\* the retry raised an error of its own, other than the first one
Wit_C27_RetryOnce ==
    /\ tpc = "done"
    /\ attempt = 2
    /\ tState.done
    /\ tState.error # NoError
    /\ tState.error # firstExc
    /\ tOutcome = Raises(firstExc)

-----------------------------------------------------------------------------
(* postprocess_prediction on its own: the calls the compiled program makes *)

RawStrings ==
    {S_true, S_True_, S_YES, S_y, S_1, S_false, S_No, S_n, S_0, S_maybe, S_42, S_neg7_,
     S_3p5, S_empty, S_list, S_fenced, S_dict}

RawValues ==
    {PyStr(s) : s \in RawStrings}
        \cup {PyNone, PyBool(TRUE), PyInt(1), PyInt(0), PyFloat(37), PyFloat(-37),
              PyList(0), PyDict(1)}

TypeHints ==
    { <<>>, <<"str">>, <<"int">>, <<"float">>, <<"bool">>, <<"list">>, <<"list[", "int", "]">>,
      <<"dict">>, <<"Any">>, <<"integer">>,
      <<"Optional[", "int", "]">>, <<"Optional[", "bool", "]">>,
      <<"int", "|", "float">>, <<"float", "|", "int">>, <<"bool", "|", "int">>,
      <<"str", "|", "int">>, <<"list[", "int", "|", "str", "]">> }

OutputModes == {Absent, "simple", "structured", "Structured "}

PostprocessCalls ==
    { [res |-> [k \in ({"out"} \cup extra) |-> IF k = "out" THEN v ELSE PyStr(S_1)],
       output_fields |-> fields, output_mode |-> mode,
       types |-> [k \in typed |-> IF k = "out" THEN hint ELSE <<"int">>]] :
        v \in RawValues, extra \in {{}, {"extra"}},
        fields \in {<<"out">>, <<"gone", "out">>}, mode \in OutputModes,
        typed \in {{"out", "extra"}, {"extra"}}, hint \in TypeHints }
        \cup
    { [res |-> [k \in {"extra"} |-> PyStr(S_1)], output_fields |-> <<"out">>,
       output_mode |-> mode, types |-> EmptyDict] : mode \in OutputModes }

PostprocessInit ==
    /\ RestIdle
    /\ rpc = "idle"
    /\ call = RunCall(NoRequest)
    /\ env = {}
    /\ resolved = NotResolved
    /\ RunIdle
    /\ ToolIdle
    /\ ppIn \in PostprocessCalls
    /\ ppPc = "idle"
    /\ ppOut = EmptyDict
    /\ vIn = NoValidate
    /\ vPc = "idle"
    /\ vOut = EmptyDict
    /\ OptIdle

Postprocess ==
    /\ ppPc = "idle"
    /\ ppOut' = PostprocessPrediction(ppIn.res, ppIn.output_fields, ppIn.output_mode, ppIn.types)
    /\ ppPc' = "done"
    /\ UNCHANGED <<ppIn, vIn, vPc, vOut>>
    /\ UNCHANGED resolverVars
    /\ UNCHANGED runVars
    /\ UNCHANGED toolVars
    /\ UNCHANGED optVars
    /\ UNCHANGED restVars

PostprocessNext == Postprocess

SpecPostprocess == PostprocessInit /\ [][PostprocessNext]_vars

(* Properties of the coercion *)

\* what the texts of the model denote, per declared type
BoolTexts ==
    { <<S_true, PyBool(TRUE)>>, <<S_True_, PyBool(TRUE)>>, <<S_YES, PyBool(TRUE)>>,
      <<S_y, PyBool(TRUE)>>, <<S_1, PyBool(TRUE)>>, <<S_false, PyBool(FALSE)>>,
      <<S_No, PyBool(FALSE)>>, <<S_n, PyBool(FALSE)>>, <<S_0, PyBool(FALSE)>> }

IntTexts == { <<S_1, PyInt(1)>>, <<S_0, PyInt(0)>>, <<S_42, PyInt(42)>>, <<S_neg7_, PyInt(-7)>> }

FloatTexts ==
    { <<S_1, PyFloat(10)>>, <<S_0, PyFloat(0)>>, <<S_42, PyFloat(420)>>,
      <<S_neg7_, PyFloat(-70)>>, <<S_3p5, PyFloat(35)>> }

ListTexts == { <<S_list, PyList(2)>>, <<S_fenced, PyList(1)>>, <<S_dict, PyList(1)>> }

DictTexts == { <<S_dict, PyDict(1)>> }

TextsOf(ty) ==
    CASE ty = "bool" -> BoolTexts
      [] ty = "int" -> IntTexts
      [] ty = "float" -> FloatTexts
      [] ty = "list" -> ListTexts
      [] OTHER -> DictTexts

\* the types a declared type hint of the model admits, in the order the
\* hint names them
HintTypes(hint) ==
    CASE hint \in { <<"int">>, <<"Optional[", "int", "]">> } -> <<"int">>
      [] hint = <<"float">> -> <<"float">>
      [] hint \in { <<"bool">>, <<"Optional[", "bool", "]">> } -> <<"bool">>
      [] hint \in { <<"list">>, <<"list[", "int", "]">>, <<"list[", "int", "|", "str", "]">> } -> <<"list">>
      [] hint = <<"dict">> -> <<"dict">>
      [] hint = <<"int", "|", "float">> -> <<"int", "float">>
      [] hint = <<"float", "|", "int">> -> <<"float", "int">>
      [] hint = <<"bool", "|", "int">> -> <<"bool", "int">>
      [] hint = <<"str", "|", "int">> -> <<"int">>
      [] OTHER -> <<>>

Parses(raw, ty) == raw.ty = "str" /\ \E p \in TextsOf(ty) : p[1] = raw.s

Parsed(raw, ty) == (CHOOSE p \in TextsOf(ty) : p[1] = raw.s)[2]

\* the value a raw text becomes: that of the first admitted type it parses
\* as, and the raw text itself when it parses as none
RECURSIVE ExpectedOut(_, _, _)
ExpectedOut(raw, types, i) ==
    IF i > Len(types) THEN raw
    ELSE IF Parses(raw, types[i]) THEN Parsed(raw, types[i])
    ELSE ExpectedOut(raw, types, i + 1)

StructuredCall == ppIn.output_mode \in {"structured", "Structured "}

DeclaredOutput(f) == \E i \in 1..Len(ppIn.output_fields) : ppIn.output_fields[i] = f

DeclaredTypes(f) ==
    HintTypes(IF f \in DOMAIN ppIn.types THEN ppIn.types[f] ELSE <<"str">>)

\* C12: in structured mode every declared output field present in the
\* result holds the value its raw text parses to under its declared type
\* (for bool the words true/1/yes/y and false/0/no/n in any case), a raw
\* value that does not parse is left as it was, and the keys of the result
\* stay the same; fields that are not declared outputs, and every field in
\* non-structured mode, are returned unchanged.
Thm_C12_Coercion ==
    ppPc = "done" =>
        /\ DOMAIN ppOut = DOMAIN ppIn.res
        /\ \A f \in DOMAIN ppIn.res :
              IF StructuredCall /\ DeclaredOutput(f)
              THEN /\ ppIn.res[f].ty = "str" =>
                        ppOut[f] = ExpectedOut(ppIn.res[f], DeclaredTypes(f), 1)
                   /\ \/ ppOut[f] = ppIn.res[f]
                      \/ \E i \in 1..Len(DeclaredTypes(f)) : ppOut[f].ty = DeclaredTypes(f)[i]
              ELSE ppOut[f] = ppIn.res[f]

\* the scenario of the spec, with a raw value that needs stripping and case
\* folding, next to a field that is not a declared output
Wit_C12_Coercion ==
    /\ ppPc = "done"
    /\ ppIn.output_mode = "structured"
    /\ DOMAIN ppIn.types = {"out", "extra"}
    /\ ppIn.types["out"] = <<"bool">>
    /\ DOMAIN ppIn.res = {"out", "extra"}
    /\ ppIn.res["out"] = PyStr(S_True_)
    /\ ppOut["out"] = PyBool(TRUE)
    /\ ppOut["extra"] = PyStr(S_1)

-----------------------------------------------------------------------------
(* validate_prediction_result on its own *)

SummaryValues ==
    {PyNone, PyStr(S_empty), PyStr(S_blank), PyStr(S_42), PyStr(S_xyz), PyList(0), PyList(3)}

LabelValues == {PyStr(S_abc), PyInt(5), PyBool(TRUE)}

\* the result dicts: summary and label, each present or not
ValidatedResults ==
    { [k \in d |-> IF k = "summary" THEN sv ELSE lv] :
        d \in SUBSET {"summary", "label"}, sv \in SummaryValues, lv \in LabelValues }

AssertionModes == {Absent, "fail_fast", "Warn_Only ", "strict"}

RequiredRules == { <<>>, <<"summary">>, <<"label", "summary">>, <<"gone">> }

NonEmptyRules == { <<>>, <<"summary">>, <<"gone", "summary">> }

EnumRules ==
    { <<>>, << <<"label", {PyStr(S_abc), PyInt(5)}>> >>,
      << <<"gone", {PyStr(S_abc)}>>, <<"label", {PyStr(S_xyz)}>> >> }

MaxLengthRules ==
    { <<>>, << <<"summary", PyInt(2)>> >>, << <<"gone", PyInt(2)>>, <<"summary", PyStr(S_1)>> >> }

RegexRules ==
    { <<>>, << <<"summary", RegexDigits>> >>, << <<"summary", RegexInvalid>> >>,
      << <<"gone", RegexDigits>>, <<"summary", RegexHasX>> >> }

AssertionConfigs ==
    [enabled : BOOLEAN, mode : AssertionModes, required_fields : RequiredRules,
     non_empty : NonEmptyRules, enum : EnumRules, max_length : MaxLengthRules,
     custom_regex : RegexRules, metric_weight : {PyNone}]

ValidateCalls == [res : ValidatedResults, cfg : AssertionConfigs]

ValidateInit ==
    /\ RestIdle
    /\ rpc = "idle"
    /\ call = RunCall(NoRequest)
    /\ env = {}
    /\ resolved = NotResolved
    /\ RunIdle
    /\ ToolIdle
    /\ ppIn = NoPostprocess
    /\ ppPc = "idle"
    /\ ppOut = EmptyDict
    /\ vIn \in ValidateCalls
    /\ vPc = "idle"
    /\ vOut = EmptyDict
    /\ OptIdle

ValidateCall ==
    /\ vPc = "idle"
    /\ vOut' = ValidatePredictionResult(vIn.res, vIn.cfg)
    /\ vPc' = "done"
    /\ UNCHANGED <<vIn, ppIn, ppPc, ppOut>>
    /\ UNCHANGED resolverVars
    /\ UNCHANGED runVars
    /\ UNCHANGED toolVars
    /\ UNCHANGED optVars
    /\ UNCHANGED restVars

ValidateNext == ValidateCall

SpecValidate == ValidateInit /\ [][ValidateNext]_vars

(* Properties of the validation *)

\* the place of a rule family in the fixed order
FamilyOrder(rule) ==
    CASE rule = "required" -> 1
      [] rule = "non_empty" -> 2
      [] rule = "enum" -> 3
      [] rule = "max_length" -> 4
      [] OTHER -> 5

ErrorsInOrder(errors) ==
    \A i, j \in 1..Len(errors) :
        i < j => FamilyOrder(errors[i].rule) <= FamilyOrder(errors[j].rule)

ConfiguredRules(cfg) ==
    Len(cfg.required_fields) + Len(cfg.non_empty) + Len(cfg.enum) + Len(cfg.max_length)
        + Len(cfg.custom_regex)

\* the rules of a per-field family whose field the result holds
PresentRules(rules, data) == Cardinality({i \in 1..Len(rules) : rules[i][1] \in DOMAIN data})

ApplicableRules(cfg, data) ==
    Len(cfg.required_fields) + Len(cfg.non_empty) + PresentRules(cfg.enum, data)
        + PresentRules(cfg.max_length, data) + PresentRules(cfg.custom_regex, data)

\* C13 as stated: the reported errors follow the order required, non-empty,
\* enum, max-length, regex, and every configured rule adds exactly one to
\* checks_total, whatever the result contains.
Orig_C13_EveryRuleCounted ==
    (vPc = "done" /\ vIn.cfg.enabled) =>
        /\ ErrorsInOrder(vOut.assertion_errors)
        /\ vOut.checks_total = ConfiguredRules(vIn.cfg)

\* C13 amended: the reported errors follow the order required, non-empty,
\* enum, max-length, regex; every required and non-empty rule adds exactly
\* one to checks_total, and an enum, max-length or regex rule adds exactly
\* one when the result holds its field and nothing when it does not.
Thm_C13_RuleOrderAndCount ==
    (vPc = "done" /\ vIn.cfg.enabled) =>
        /\ ErrorsInOrder(vOut.assertion_errors)
        /\ vOut.checks_total = ApplicableRules(vIn.cfg, vIn.res)

\* all five families configured, failures in three of them and rules on a
\* field the result does not hold
Wit_C13_RuleOrderAndCount ==
    /\ vPc = "done"
    /\ vIn.cfg.enabled
    /\ Len(vIn.cfg.required_fields) = 2
    /\ Len(vIn.cfg.non_empty) = 2
    /\ Len(vIn.cfg.enum) = 2
    /\ Len(vIn.cfg.max_length) = 2
    /\ Len(vIn.cfg.custom_regex) = 2
    /\ vOut.checks_total = 7
    /\ \E i, j, k \in 1..Len(vOut.assertion_errors) :
          /\ vOut.assertion_errors[i].rule = "non_empty"
          /\ vOut.assertion_errors[j].rule = "enum"
          /\ vOut.assertion_errors[k].rule = "regex"

\* the fraction is 1 - failed/total
IsOneMinus(score, failed, total) == score.num * total = (total - failed) * score.den

\* C14: 0 <= checks_failed <= checks_total, one reported error per failed
\* check, assertions_passed iff no check failed, assertion_score =
\* 1 - checks_failed/checks_total; with no configured rule, or assertions
\* disabled, the score is 1.0 and assertions_passed is true.
Thm_C14_ScoreArithmetic ==
    vPc = "done" =>
        /\ 0 <= vOut.checks_failed
        /\ vOut.checks_failed <= vOut.checks_total
        /\ Len(vOut.assertion_errors) = vOut.checks_failed
        /\ vOut.assertions_passed <=> (vOut.checks_failed = 0)
        /\ vOut.assertion_score.den > 0
        /\ vOut.checks_total > 0 =>
              IsOneMinus(vOut.assertion_score, vOut.checks_failed, vOut.checks_total)
        /\ (~vIn.cfg.enabled \/ ConfiguredRules(vIn.cfg) = 0) =>
              /\ vOut.assertion_score.num = vOut.assertion_score.den
              /\ vOut.assertions_passed
              /\ vOut.checks_total = 0

\* two of five checks failed
Wit_C14_ScoreArithmetic ==
    /\ vPc = "done"
    /\ vOut.checks_total = 5
    /\ vOut.checks_failed = 2
    /\ vOut.assertion_score = [num |-> 3, den |-> 5]
    /\ ~vOut.assertions_passed


(* DSPyRunner.optimize *)

AbsentList == <<Absent>>

ErrNoScenarios == "No scenarios found in playbook for optimization"

ErrNoExamples == "No valid training examples from scenarios"

ErrNoGEPA == "GEPA is required for DSPy optimization but is unavailable"

ErrPlaybookNotFound == "Playbook not found"

\* str(e) of an exception caught by optimize
ExcText == "<str(e)>"

NoteSkipped == "Already optimized"

\* a scenario is a mapping ("dict") or anything else ("other")
ScenarioLists == {<<>>, <<"dict">>, <<"other">>, <<"dict", "other">>, <<"dict", "dict">>}

\* the pipeline module: defines build_program ("native"), defines only a pipeline
\* class ("legacy"), defines neither ("legacy_noclass"), or fails to import ("broken").
\* pipeline.train belongs to the generated pipeline class, so a legacy module whose
\* playbook has scenarios is left out.
OptimizeCalls ==
    { o \in [exists : BOOLEAN, force : BOOLEAN,
             module : {"native", "legacy", "legacy_noclass", "broken"},
             playbook : {"ok", "missing", "invalid"},
             fs_scenarios : ScenarioLists \cup {AbsentList},
             scenarios : ScenarioLists \cup {AbsentList},
             has_save : BOOLEAN] :
        /\ o.playbook # "ok" => (o.fs_scenarios = AbsentList /\ o.scenarios = AbsentList)
        /\ o.module = "legacy" =>
              (o.fs_scenarios \in {<<>>, AbsentList} /\ o.scenarios \in {<<>>, AbsentList}) }

\* scenarios of the playbook: feature_specifications.scenarios when non-empty,
\* else the top-level scenarios key, else none
Scenarios(o) ==
    IF o.fs_scenarios # AbsentList /\ o.fs_scenarios # <<>> THEN o.fs_scenarios
    ELSE IF o.scenarios # AbsentList THEN o.scenarios
    ELSE <<>>

\* one example per scenario that is a mapping
RECURSIVE Examples(_)
Examples(scs) ==
    IF scs = <<>> THEN 0
    ELSE (IF Head(scs) = "dict" THEN 1 ELSE 0) + Examples(Tail(scs))

\* faulty variant of SkipExisting: the force flag is ignored
SkipExistingMut(exists, force) == exists

\* if self.optimized_path.exists() and not force
SkipExisting(exists, force) == exists /\ ~force

\* faulty variant of OptCatches: the exception escapes optimize
OptCatchesMut(exc) == "raised"

\* except Exception as e: the error is reported in the result
OptCatches(exc) == "returned"

\* faulty variant of SaveOptimized: the optimized program is never saved
SaveOptimizedMut(file, has_save) == file

\* if hasattr(optimized_program, "save"): optimized_program.save(optimized_path)
SaveOptimized(file, has_save) ==
    IF has_save THEN [exists |-> TRUE, written |-> TRUE] ELSE file

OptimizeInit ==
    /\ RestIdle
    /\ rpc = "idle"
    /\ call = RunCall(NoRequest)
    /\ env = {}
    /\ resolved = NotResolved
    /\ RunIdle
    /\ ToolIdle
    /\ PureIdle
    /\ opt \in OptimizeCalls
    /\ optPc = "idle"
    /\ optSteps = <<>>
    /\ optFile = [exists |-> opt.exists, written |-> FALSE]
    /\ optResult = NoOptResult
    /\ optReturn = "none"
    /\ mIn = NoMetric
    /\ mPc = "idle"
    /\ mOut = NoScore

OptFrame ==
    /\ UNCHANGED opt
    /\ UNCHANGED metricVars
    /\ UNCHANGED resolverVars
    /\ UNCHANGED runVars
    /\ UNCHANGED toolVars
    /\ UNCHANGED pureVars
    /\ UNCHANGED restVars

\* an exception inside the try block
OptFail(exc) ==
    /\ optResult' = [optResult EXCEPT !.error = ExcText]
    /\ optReturn' = OptCatches(exc)
    /\ optPc' = "done"

\* an early return with an error in the result
OptReport(error) ==
    /\ optResult' = [optResult EXCEPT !.error = error]
    /\ optReturn' = "returned"
    /\ optPc' = "done"

OptCheckExisting ==
    /\ optPc = "idle"
    /\ optSteps' = Append(optSteps, "check_existing")
    /\ IF SkipExisting(optFile.exists, opt.force)
       THEN /\ optResult' = [optResult EXCEPT !.success = TRUE, !.note = NoteSkipped]
            /\ optReturn' = "returned"
            /\ optPc' = "done"
       ELSE /\ optPc' = "load_module"
            /\ UNCHANGED <<optResult, optReturn>>
    /\ UNCHANGED optFile
    /\ OptFrame

OptLoadModule ==
    /\ optPc = "load_module"
    /\ optSteps' = Append(optSteps, "load_module")
    /\ CASE opt.module = "broken" -> OptFail("ImportError")
         [] opt.module = "native" ->
               /\ optPc' = "scenarios"
               /\ UNCHANGED <<optResult, optReturn>>
         [] OTHER ->
               /\ optPc' = "legacy"
               /\ UNCHANGED <<optResult, optReturn>>
    /\ UNCHANGED optFile
    /\ OptFrame

\* _load_playbook_data returns {} for a missing playbook and raises on an invalid one
OptScenarios ==
    /\ optPc = "scenarios"
    /\ optSteps' = Append(optSteps, "load_playbook")
    /\ IF opt.playbook = "invalid" THEN OptFail("YAMLError")
       ELSE IF Scenarios(opt) = <<>> THEN OptReport(ErrNoScenarios)
       ELSE /\ optPc' = "configure"
            /\ UNCHANGED <<optResult, optReturn>>
    /\ UNCHANGED optFile
    /\ OptFrame

\* _resolve_dspy_lm_params, setup_lm or the playbook default, build_program
OptConfigure ==
    /\ optPc = "configure"
    /\ \E outcome \in {"resolve_raises", "setup_raises", "build_raises", "built"} :
          /\ optSteps' =
                CASE outcome = "resolve_raises" -> Append(optSteps, "resolve_model")
                  [] outcome = "setup_raises" -> optSteps \o <<"resolve_model", "setup_lm">>
                  [] OTHER -> optSteps \o <<"resolve_model", "setup_lm", "build_program">>
          /\ IF outcome = "built"
             THEN /\ optPc' = "examples"
                  /\ UNCHANGED <<optResult, optReturn>>
             ELSE OptFail(outcome)
    /\ UNCHANGED optFile
    /\ OptFrame

\* dspy.Example for every scenario that is a mapping
OptExamples ==
    /\ optPc = "examples"
    /\ optSteps' = Append(optSteps, "examples")
    /\ \E raises \in BOOLEAN :
          IF raises /\ Examples(Scenarios(opt)) > 0 THEN OptFail("TypeError")
          ELSE IF Examples(Scenarios(opt)) = 0 THEN OptReport(ErrNoExamples)
          ELSE /\ optPc' = "optimizer"
               /\ UNCHANGED <<optResult, optReturn>>
    /\ UNCHANGED optFile
    /\ OptFrame

\* teacher parameters and reflection LM, import of GEPA, GEPA(...), gepa.compile
OptOptimizer ==
    /\ optPc = "optimizer"
    /\ \E outcome \in {"teacher_raises", "gepa_missing", "init_raises",
                       "compile_raises", "compiled"} :
          /\ optSteps' =
                CASE outcome = "teacher_raises" -> Append(optSteps, "teacher")
                  [] outcome = "gepa_missing" -> optSteps \o <<"teacher", "import_gepa">>
                  [] outcome = "init_raises" -> optSteps \o <<"teacher", "import_gepa", "gepa_init">>
                  [] outcome = "compile_raises" ->
                        optSteps \o <<"teacher", "import_gepa", "gepa_init", "compile">>
                  [] OTHER ->
                        optSteps \o <<"teacher", "import_gepa", "gepa_init", "compile", "optimized">>
          /\ CASE outcome = "compiled" ->
                    /\ optPc' = "save"
                    /\ UNCHANGED <<optResult, optReturn>>
               [] outcome = "gepa_missing" -> OptReport(ErrNoGEPA)
               [] OTHER -> OptFail(outcome)
    /\ UNCHANGED optFile
    /\ OptFrame

\* optimized_program.save raises or writes the file; then the result is filled in
OptSave ==
    /\ optPc = "save"
    /\ \E raises \in BOOLEAN :
          IF raises /\ opt.has_save
          THEN /\ optSteps' = Append(optSteps, "save")
               /\ OptFail("OSError")
               /\ UNCHANGED optFile
          ELSE /\ optSteps' = IF opt.has_save THEN Append(optSteps, "save") ELSE optSteps
               /\ optFile' = SaveOptimized(optFile, opt.has_save)
               /\ optResult' = [optResult EXCEPT !.success = TRUE,
                                   !.training_examples = Examples(Scenarios(opt)),
                                   !.optimizer = "GEPA", !.score = "optimized"]
               /\ optReturn' = "returned"
               /\ optPc' = "done"
    /\ OptFrame

\* the class-based pipeline: resolve_pipeline_class, the constructor, the playbook
OptLegacy ==
    /\ optPc = "legacy"
    /\ \E raises \in BOOLEAN :
          IF opt.module = "legacy_noclass"
          THEN /\ optSteps' = Append(optSteps, "pipeline_class")
               /\ OptFail("AttributeError")
          ELSE IF raises
          THEN /\ optSteps' = optSteps \o <<"pipeline_class", "pipeline_init">>
               /\ OptFail("Exception")
          ELSE /\ optSteps' = optSteps \o <<"pipeline_class", "pipeline_init", "load_playbook">>
               /\ CASE opt.playbook = "missing" -> OptReport(ErrPlaybookNotFound)
                    [] opt.playbook = "invalid" -> OptFail("YAMLError")
                    [] OTHER -> OptReport(ErrNoScenarios)
    /\ UNCHANGED optFile
    /\ OptFrame

OptimizeNext ==
    \/ OptCheckExisting
    \/ OptLoadModule
    \/ OptScenarios
    \/ OptConfigure
    \/ OptExamples
    \/ OptOptimizer
    \/ OptSave
    \/ OptLegacy

SpecOptimize == OptimizeInit /\ [][OptimizeNext]_vars

(* Properties of optimize *)

Did(step) == \E i \in 1..Len(optSteps) : optSteps[i] = step

OptDone == optPc = "done"

\* the playbook was read and holds no scenario
ZeroScenarios == opt.playbook = "ok" /\ Scenarios(opt) = <<>>

Thm_C18_SkipExisting ==
    /\ (OptDone /\ opt.exists /\ ~opt.force) =>
          /\ optReturn = "returned"
          /\ optResult = [NoOptResult EXCEPT !.success = TRUE, !.note = NoteSkipped]
          /\ optFile = [exists |-> TRUE, written |-> FALSE]
          /\ optSteps = <<"check_existing">>
    /\ (OptDone /\ opt.exists /\ opt.force) =>
          /\ Did("load_module")
          /\ optResult.note = "None"

Wit_C18_SkipExisting ==
    /\ OptDone
    /\ opt.exists
    /\ ~opt.force
    /\ opt.module = "native"
    /\ Examples(Scenarios(opt)) > 0
    /\ optResult.success

Frac(n, d) == [num |-> n, den |-> d]

FracAdd(a, b) == Frac(a.num * b.den + b.num * a.den, a.den * b.den)

FracMul(a, b) == Frac(a.num * b.num, a.den * b.den)

\* 1.0 - a
FracComplement(a) == Frac(a.den - a.num, a.den)

\* min(1.0, max(0.0, a))
Clamp01(a) ==
    IF a.num < 0 THEN Frac(0, 1)
    ELSE IF a.num > a.den THEN Frac(1, 1)
    ELSE a

\* sub in s
Contains(s, sub) ==
    \E i \in 0..(Len(s) - Len(sub)) : SubSeq(s, i + 1, i + Len(sub)) = sub

\* the position after the first word of a text that starts with a word
WordEnd(s) ==
    IF \E i \in 1..Len(s) : s[i] \in Whitespace
    THEN CHOOSE i \in 1..Len(s) :
            /\ s[i] \in Whitespace
            /\ \A j \in 1..(i - 1) : s[j] \notin Whitespace
    ELSE Len(s) + 1

\* set(s.split())
RECURSIVE Tokens(_)
Tokens(s) ==
    IF s = <<>> THEN {}
    ELSE IF s[1] \in Whitespace THEN Tokens(Tail(s))
    ELSE {SubSeq(s, 1, WordEnd(s) - 1)} \cup Tokens(SubSeq(s, WordEnd(s), Len(s)))

\* faulty variant of FieldText: the case is kept
FieldTextMut(obj, field) ==
    Strip(IF field \in DOMAIN obj THEN obj[field] ELSE <<>>)

\* str(getattr(obj, field, "")).strip().lower()
FieldText(obj, field) ==
    Lower(Strip(IF field \in DOMAIN obj THEN obj[field] ELSE <<>>))

\* the score of one field whose gold text g is not empty
FieldScore(g, p) ==
    IF Contains(p, g) \/ Contains(g, p) THEN Frac(1, 1)
    ELSE Frac(Cardinality(Tokens(g) \cap Tokens(p)), Cardinality(Tokens(g)))

\* the scores list: fields with an empty gold text are skipped
RECURSIVE FieldScores(_, _, _)
FieldScores(gold, pred, fields) ==
    IF fields = <<>> THEN <<>>
    ELSE LET g == FieldText(gold, Head(fields))
             p == FieldText(pred, Head(fields))
             rest == FieldScores(gold, pred, Tail(fields))
         IN IF g = <<>> THEN rest ELSE <<FieldScore(g, p)>> \o rest

RECURSIVE FracSum(_)
FracSum(scores) ==
    IF scores = <<>> THEN Frac(0, 1)
    ELSE FracAdd(Head(scores), FracSum(Tail(scores)))

\* sum(scores) / len(scores) if scores else 0.5
QualityScore(scores) ==
    IF scores = <<>> THEN Frac(1, 2)
    ELSE Frac(FracSum(scores).num, FracSum(scores).den * Len(scores))

\* the module's validate_prediction_result hook: absent, raising, or returning
\* a payload with this assertion_score
AssertionScore(hook) ==
    IF hook.kind = "scored" THEN Clamp01(hook.score) ELSE Frac(1, 1)

\* assertion_metric_weight: the metric_weight of DSPY_ASSERTIONS_CONFIG as a
\* float, 0.3 when it is no number, clamped to [0, 1]
AssertionMetricWeight(weight) == Clamp01(MetricWeight(weight))

\* (1.0 - weight) * quality + weight * assertion
Blend(weight, quality, assertion) ==
    FracAdd(FracMul(FracComplement(weight), quality), FracMul(weight, assertion))

\* an exception inside the metric returns 0.0 and leaves metric_stats alone
GepaMetric(m) ==
    LET quality == QualityScore(FieldScores(m.gold, m.pred, m.output_fields))
        assertion == AssertionScore(m.hook)
    IN IF m.hook.kind = "raises"
       THEN [returned |-> Frac(0, 1), counted |-> FALSE,
             quality |-> quality, assertion |-> Frac(1, 1)]
       ELSE [returned |-> Blend(AssertionMetricWeight(m.weight), quality, assertion),
             counted |-> TRUE,
             quality |-> quality, assertion |-> assertion]

MetricTexts ==
    { <<>>, <<" ">>, <<"a", "b">>, <<"A", "B">>, <<"b">>,
      <<"a", "b", " ", "c", "d">>, <<"A", "b", " ", "c", "D">>,
      <<"c", "d", " ", "x">> }

LabelTexts == { <<>>, <<"O", "k">>, <<"o", "K">> }

\* the output attributes of an example or a prediction: answer and label, each
\* a text or missing
MetricObjects ==
    UNION { [ks -> MetricTexts] : ks \in {{}, {"answer"}} }
        \cup
    { [k \in {"answer", "label"} |-> IF k = "answer" THEN a ELSE l] :
         a \in MetricTexts, l \in LabelTexts }
        \cup
    { [k \in {"label"} |-> l] : l \in LabelTexts }

\* the metric_weight of the compiled assertion configuration: missing, in
\* range, out of range, or no number
MetricWeights == {PyNone, PyFloat(0), PyInt(1), PyFloat(15), PyFloat(-20), PyStr(S_abc)}

MetricHooks ==
    {NoHook, [kind |-> "raises", score |-> Frac(1, 1)]}
        \cup
    { [kind |-> "scored", score |-> sc] : sc \in {Frac(0, 1), Frac(1, 2), Frac(3, 2)} }

MetricCalls ==
    [gold : MetricObjects, pred : MetricObjects,
     output_fields : {<<"answer">>, <<"answer", "label">>},
     weight : MetricWeights, hook : MetricHooks]

MetricInit ==
    /\ RestIdle
    /\ rpc = "idle"
    /\ call = RunCall(NoRequest)
    /\ env = {}
    /\ resolved = NotResolved
    /\ RunIdle
    /\ ToolIdle
    /\ PureIdle
    /\ opt = NoOptimize
    /\ optPc = "idle"
    /\ optSteps = <<>>
    /\ optFile = NoFile
    /\ optResult = NoOptResult
    /\ optReturn = "none"
    /\ mIn \in MetricCalls
    /\ mPc = "idle"
    /\ mOut = NoScore

Metric ==
    /\ mPc = "idle"
    /\ mOut' = GepaMetric(mIn)
    /\ mPc' = "done"
    /\ UNCHANGED <<mIn, opt, optPc, optSteps, optFile, optResult, optReturn>>
    /\ UNCHANGED resolverVars
    /\ UNCHANGED runVars
    /\ UNCHANGED toolVars
    /\ UNCHANGED pureVars
    /\ UNCHANGED restVars

MetricNext == Metric

SpecMetric == MetricInit /\ [][MetricNext]_vars

(* Properties of the metric *)

\* the attribute as the metric reads it, before any normalisation
RawText(obj, field) == IF field \in DOMAIN obj THEN obj[field] ELSE <<>>

IdenticalIgnoringCase(a, b) ==
    /\ Len(a) = Len(b)
    /\ \A i \in 1..Len(a) :
          \/ a[i] = b[i]
          \/ \E k \in 1..Len(LowerCase) :
                {a[i], b[i]} = {LowerCase[k], UpperCase[k]}

\* gold and prediction agree, ignoring case, on every declared output field
AllFieldsIdentical ==
    \A i \in 1..Len(mIn.output_fields) :
       IdenticalIgnoringCase(RawText(mIn.gold, mIn.output_fields[i]),
                             RawText(mIn.pred, mIn.output_fields[i]))

\* some declared output field has a gold text that is not blank
SomeGoldText ==
    \E i \in 1..Len(mIn.output_fields) :
       \E j \in 1..Len(RawText(mIn.gold, mIn.output_fields[i])) :
          RawText(mIn.gold, mIn.output_fields[i])[j] \notin Whitespace

IsOne(score) == score.num = score.den

EmptyPrediction ==
    \A i \in 1..Len(mIn.output_fields) :
       \A j \in 1..Len(RawText(mIn.pred, mIn.output_fields[i])) :
          RawText(mIn.pred, mIn.output_fields[i])[j] \in Whitespace

\* C30: for an example with some gold text that is not blank, a prediction
\* whose declared output fields are all empty or missing scores the token
\* overlap 0 on every field, so its quality_score is 0 and not 1.0.
Orig_C30_EmptyPredictionScoresZero ==
    (mPc = "done" /\ EmptyPrediction /\ SomeGoldText) =>
       /\ mOut.quality.num = 0
       /\ ~IsOne(mOut.quality)

-----------------------------------------------------------------------------
(* DSPyRunner._configure_dspy_adapter *)

\* the keys of adapter_map
AdapterTypes == {"chat", "json", "xml", "twostep"}

\* tools modes that keep the chat adapter
ChatToolsModes == {"builtin", "mcp", "stackone", "stackone_discovery"}

\* float("inf"), as YAML's .inf loads
PyInf == [ty |-> "inf", s |-> <<>>, n |-> 0]

\* what int() raises for an infinite float
Overflow == [ty |-> "overflow", s |-> <<>>, n |-> 0]

\* _choose_adapter_type
ChooseAdapterType(cfg) ==
    LET mode == IF cfg.mode = Absent THEN "auto" ELSE StripLower(cfg.mode)
        manual_type == IF cfg.type = Absent THEN "chat" ELSE StripLower(cfg.type)
    IN  IF mode # "auto" THEN manual_type
        ELSE IF cfg.module = "react" \/ cfg.tools_mode \in ChatToolsModes THEN "chat"
        ELSE IF cfg.prefer_structured THEN "json"
        ELSE "chat"

\* str(adapter_cfg.get("fallback_adapter", "chat")).strip().lower()
FallbackType(cfg) ==
    IF cfg.fallback_adapter = Absent THEN "chat" ELSE StripLower(cfg.fallback_adapter)

\* bool(value) is False
Falsy(value) ==
    \/ value.ty = "none"
    \/ value.ty \in {"int", "float", "bool", "list", "dict"} /\ value.n = 0
    \/ value.ty = "str" /\ value.s = <<>>

\* int(value): ParseError for TypeError and ValueError, Overflow for OverflowError
ToInt(value) ==
    CASE value.ty \in {"int", "bool"} -> PyInt(value.n)
      [] value.ty = "float" -> PyInt(TruncateTenths(value.n))
      [] value.ty = "inf" -> Overflow
      [] value.ty = "str" -> ParseInt(Strip(value.s))
      [] OTHER -> ParseError

\* max(0, int(adapter_cfg.get("retry_on_parse_error", 1) or 0)), 1 on
\* TypeError and ValueError; OverflowError is not caught
RetryOnParseError(value) ==
    LET v == IF value = Missing THEN PyInt(1) ELSE IF Falsy(value) THEN PyInt(0) ELSE value
    IN  CASE ToInt(v) = ParseError -> PyInt(1)
          [] ToInt(v) = Overflow -> Overflow
          [] OTHER -> PyInt(IF ToInt(v).n < 0 THEN 0 ELSE ToInt(v).n)

\* _build_dspy_adapter: None for an unknown type and for a constructor that raises
BuildDspyAdapter(adapter_type, failing) ==
    IF adapter_type \notin AdapterTypes THEN "None"
    ELSE IF adapter_type \in failing THEN "None"
    ELSE adapter_type

\* faulty variant of NeedsFallback: the fallback is never tried
NeedsFallbackMut(built, fallback_type, adapter_type) == FALSE

\* if adapter is None and fallback_type != adapter_type
NeedsFallback(built, fallback_type, adapter_type) ==
    built = "None" /\ fallback_type # adapter_type

\* the retry_on_parse_error values of a playbook
RetryValues ==
    {Missing, PyNone, PyInt(3), PyInt(-2), PyInt(0), PyFloat(25), PyFloat(-15),
     PyStr(S_42), PyStr(S_neg7_), PyStr(S_abc), PyList(3), PyInf}

\* the resolved adapter configuration (empty or not), what the playbook says
\* about module and tools, and the adapter classes whose constructor raises
AdapterConfigs ==
    { c \in [configured : BOOLEAN, mode : {Absent, "auto", "manual"},
             type : {Absent, "json", "JSON ", "xml", "bogus"},
             fallback_adapter : {Absent, "json", "twostep", "bogus"},
             retry_on_parse_error : RetryValues,
             module : {"", "react"}, tools_mode : {"none", "mcp"},
             prefer_structured : BOOLEAN,
             failing : {{}, {"chat"}, {"json"}, {"chat", "json"}, {"xml", "twostep"},
                        AdapterTypes},
             configure_fails : BOOLEAN] :
        /\ c.module = "react" => c.tools_mode = "none"
        /\ ~c.configured => c = [NoAdapter EXCEPT !.failing = c.failing] }

AdapterInit ==
    /\ rpc = "idle"
    /\ call = RunCall(NoRequest)
    /\ env = {}
    /\ resolved = NotResolved
    /\ RunIdle
    /\ ToolIdle
    /\ PureIdle
    /\ OptIdle
    /\ AdapterOthers
    /\ adIn \in AdapterConfigs
    /\ adPc = "idle"
    /\ adBuilds = <<>>
    /\ adOut = NoAdapterOutcome

AdapterFrame ==
    /\ UNCHANGED adIn
    /\ AdapterOthersFrame
    /\ UNCHANGED resolverVars
    /\ UNCHANGED runVars
    /\ UNCHANGED toolVars
    /\ UNCHANGED pureVars
    /\ UNCHANGED optVars

\* _configure_dspy_adapter, from the resolved configuration to dspy.configure
ConfigureAdapter ==
    /\ adPc = "idle"
    /\ adPc' = "done"
    /\ LET adapter_type == ChooseAdapterType(adIn)
           fallback_type == FallbackType(adIn)
           retry == RetryOnParseError(adIn.retry_on_parse_error)
           first == BuildDspyAdapter(adapter_type, adIn.failing)
           second == BuildDspyAdapter(fallback_type, adIn.failing)
           fallback == NeedsFallback(first, fallback_type, adapter_type)
           adapter == IF fallback THEN second ELSE first
       IN  CASE ~adIn.configured ->
                  /\ adBuilds' = <<>>
                  /\ adOut' = [status |-> "no_config", type |-> "", retry |-> 0]
             [] adIn.configured /\ retry = Overflow ->
                  /\ adBuilds' = <<>>
                  /\ adOut' = [status |-> "raised", type |-> "", retry |-> 0]
             [] OTHER ->
                  /\ adBuilds' =
                        <<[type |-> adapter_type, retry |-> retry.n]>> \o
                        (IF fallback THEN <<[type |-> fallback_type, retry |-> retry.n]>>
                         ELSE <<>>)
                  /\ adOut' =
                        IF adapter = "None"
                        THEN [status |-> "skipped", type |-> "", retry |-> retry.n]
                        ELSE IF adIn.configure_fails
                        THEN [status |-> "configure_failed", type |-> "", retry |-> retry.n]
                        ELSE [status |-> "configured", type |-> adapter, retry |-> retry.n]
    /\ AdapterFrame

AdapterNext == ConfigureAdapter

SpecAdapter == AdapterInit /\ [][AdapterNext]_vars

(* Properties of the adapter configuration *)

\* the constructor call for this type cannot give an adapter
CannotBuild(adapter_type) == adapter_type \notin AdapterTypes \/ adapter_type \in adIn.failing

Built(adapter_type) == \E i \in 1..Len(adBuilds) : adBuilds[i].type = adapter_type

-----------------------------------------------------------------------------
(* The clamped quantities: metric_weight, the blended score, the retry count *)

\* assertion configurations that differ in metric_weight only
WeightCalls ==
    [res : {[k \in {"summary"} |-> PyStr(S_42)]},
     cfg : { [NoAssertions EXCEPT !.enabled = e, !.metric_weight = w,
                                  !.non_empty = <<"summary">>] :
                e \in BOOLEAN, w \in MetricWeights \cup {PyFloat(7), PyStr(S_3p5)} }]

WeightInit ==
    /\ RestIdle
    /\ rpc = "idle"
    /\ call = RunCall(NoRequest)
    /\ env = {}
    /\ resolved = NotResolved
    /\ RunIdle
    /\ ToolIdle
    /\ OptIdle
    /\ ppIn = NoPostprocess
    /\ ppPc = "idle"
    /\ ppOut = EmptyDict
    /\ vIn \in WeightCalls
    /\ vPc = "idle"
    /\ vOut = EmptyDict

\* one of the three computations, over every weight and every retry count
ClampInit ==
    \/ WeightInit
    \/ /\ MetricInit
       /\ mIn.output_fields = <<"answer">>
       /\ DOMAIN mIn.gold = {"answer"}
       /\ DOMAIN mIn.pred = {"answer"}
    \/ /\ AdapterInit
       /\ adIn.configured
       /\ adIn.failing = {}
       /\ adIn.module = ""
       /\ adIn.fallback_adapter = Absent

ClampNext ==
    \/ ValidateCall
    \/ Metric
    \/ ConfigureAdapter

SpecClamp == ClampInit /\ [][ClampNext]_vars

\* a fraction in [0, 1]
InUnit(score) == 0 <= score.num /\ score.num <= score.den

\* C21: the metric_weight of an assertion result, the weight and the blended
\* score of the metric lie in [0,1] whatever weight is configured, and the
\* adapter's retry_on_parse_error is never negative.
Orig_C21_Clamped ==
    /\ vPc = "done" => InUnit(vOut.metric_weight)
    /\ mPc = "done" =>
          /\ InUnit(AssertionMetricWeight(mIn.weight))
          /\ InUnit(mOut.returned)
    /\ adPc = "done" =>
          /\ adOut.retry >= 0
          /\ \A i \in 1..Len(adBuilds) : adBuilds[i].retry >= 0

-----------------------------------------------------------------------------
(* DSPyRunner.optimize: the keyword arguments built for GEPA *)

\* gepa_cfg.get("auto", "light")
AutoBudget(cfg) == IF cfg.auto = Absent THEN "light" ELSE cfg.auto

\* optional_init_cfg, restricted to three of its keys
OptionalInitCfg(cfg) ==
    [k \in {"auto", "reflection_minibatch_size", "seed"} |->
        CASE k = "auto" -> AutoBudget(cfg)
          [] k = "reflection_minibatch_size" -> cfg.reflection_minibatch_size
          [] OTHER -> "0"]

\* init_kwargs: the metric and every supported key whose value is not None
InitKwargs(cfg) ==
    {"metric"} \cup
    { k \in DOMAIN OptionalInitCfg(cfg) :
         k \in cfg.init_params /\ OptionalInitCfg(cfg)[k] # "None" }

\* compile_kwargs: student, trainset and every supported key that is configured
CompileKwargs(cfg) ==
    {"student", "trainset"} \cup
    (IF "valset" \in cfg.compile_params THEN {"valset"} ELSE {}) \cup
    { k \in {"max_full_evals", "max_metric_calls", "track_stats"} :
         k \in cfg.compile_params /\ cfg[k] # "None" }

\* the GEPA block of the playbook and the parameter names that GEPA.__init__
\* and gepa.compile declare
GepaConfigs ==
    [auto : {Absent, "None", "light", "heavy"},
     max_full_evals : {"None", "5"}, max_metric_calls : {"None", "100"},
     reflection_minibatch_size : {"None", "3"}, track_stats : {"None", "True"},
     init_params : SUBSET {"auto", "reflection_minibatch_size", "seed"},
     compile_params : SUBSET {"valset", "max_full_evals", "max_metric_calls", "track_stats"}]

GepaInit ==
    /\ rpc = "idle"
    /\ call = RunCall(NoRequest)
    /\ env = {}
    /\ resolved = NotResolved
    /\ RunIdle
    /\ ToolIdle
    /\ PureIdle
    /\ OptIdle
    /\ GepaOthers
    /\ gkIn \in GepaConfigs
    /\ gkPc = "idle"
    /\ gkOut = NoKwargs

\* from `auto = "light"` to the call of gepa.compile
ForwardKwargs ==
    /\ gkPc = "idle"
    /\ gkOut' = [init |-> InitKwargs(gkIn), compile |-> CompileKwargs(gkIn),
                 auto |-> IF "auto" \in InitKwargs(gkIn) THEN AutoBudget(gkIn) ELSE "None"]
    /\ gkPc' = "done"
    /\ UNCHANGED gkIn
    /\ GepaOthersFrame
    /\ UNCHANGED resolverVars
    /\ UNCHANGED runVars
    /\ UNCHANGED toolVars
    /\ UNCHANGED pureVars
    /\ UNCHANGED optVars

GepaNext == ForwardKwargs

SpecGepa == GepaInit /\ [][GepaNext]_vars

(* Properties of the optimizer arguments *)

ExplicitBudgets == {"max_full_evals", "max_metric_calls"}

\* C22: the forwarded arguments never hold both an auto budget and an
\* explicit max_full_evals or max_metric_calls budget.
Orig_C22_OneBudgetStyle ==
    gkPc = "done" =>
       ~ /\ "auto" \in gkOut.init
         /\ ExplicitBudgets \cap (gkOut.init \cup gkOut.compile) # {}

-----------------------------------------------------------------------------
(* ImplicitFeedbackManager.track_tool_call, called from several threads *)

MaxClock == 5
MaxTrackCalls == 2

\* ImplicitFeedbackConfig.refinement_window_seconds
RefinementWindow == 5

FbThreadIds == {"t1", "t2"}

\* the session_id arguments; "" stands for None and for the empty string
SessionIds == {"", "s1"}

\* what config.session_resolver returns, or that there is no resolver
SessionResolvers == {Absent, "", "s2"}

FbSessions == {"default", "s1", "s2"}

\* resolved_session
ResolvedSession(session_id, cfg) ==
    LET resolved_session == IF session_id = "" /\ cfg.resolver # Absent
                            THEN cfg.resolver ELSE session_id
    IN  IF resolved_session = "" THEN "default" ELSE resolved_session

\* recent_calls
RecentCalls(timestamps, now) ==
    SelectSeq(timestamps, LAMBDA t : now - t < RefinementWindow)

IdleThread == [pc |-> "idle", session |-> "", now |-> 0, status |-> "none", count |-> 0]

FbRunning == { t \in DOMAIN fbThreads : fbThreads[t].pc # "idle" }

FbStarted ==
    Cardinality(FbRunning) + fbDone["default"] + fbDone["s1"] + fbDone["s2"]

FeedbackInit ==
    /\ rpc = "idle"
    /\ call = RunCall(NoRequest)
    /\ env = {}
    /\ resolved = NotResolved
    /\ RunIdle
    /\ ToolIdle
    /\ PureIdle
    /\ OptIdle
    /\ FeedbackOthers
    /\ fbCfg \in [enabled : BOOLEAN, resolver : SessionResolvers]
    /\ fbCalls = NoSessionCalls
    /\ fbClock = 0
    /\ fbThreads = [t \in FbThreadIds |-> IdleThread]
    /\ fbDone = [s \in FbSessions |-> 0]
    /\ fbOverlap = FALSE

FeedbackFrame ==
    /\ FeedbackOthersFrame
    /\ UNCHANGED resolverVars
    /\ UNCHANGED runVars
    /\ UNCHANGED toolVars
    /\ UNCHANGED pureVars
    /\ UNCHANGED optVars

\* time passes
Tick ==
    /\ fbClock < MaxClock
    /\ fbClock' = fbClock + 1
    /\ UNCHANGED <<fbCfg, fbCalls, fbThreads, fbDone, fbOverlap>>
    /\ FeedbackFrame

\* `if not self.config.enabled: return {"status": "disabled"}`
TrackDisabled(t) ==
    /\ fbThreads[t].pc = "idle"
    /\ fbThreads[t].status = "none"
    /\ ~fbCfg.enabled
    /\ fbThreads' = [fbThreads EXCEPT ![t].status = "disabled"]
    /\ UNCHANGED <<fbCfg, fbCalls, fbClock, fbDone, fbOverlap>>
    /\ FeedbackFrame

\* the session is resolved and `now = time.time()` is read
TrackBegin(t) ==
    /\ fbThreads[t].pc = "idle"
    /\ fbCfg.enabled
    /\ FbStarted < MaxTrackCalls
    /\ \E session_id \in SessionIds :
          fbThreads' = [fbThreads EXCEPT ![t] =
              [pc |-> "check", session |-> ResolvedSession(session_id, fbCfg),
               now |-> fbClock, status |-> "running", count |-> 0]]
    /\ fbOverlap' = (fbOverlap \/ FbRunning # {})
    /\ UNCHANGED <<fbCfg, fbCalls, fbClock, fbDone>>
    /\ FeedbackFrame

\* `if resolved_session not in self._session_calls`
TrackCheck(t) ==
    /\ fbThreads[t].pc = "check"
    /\ fbThreads' = [fbThreads EXCEPT ![t].pc =
          IF fbThreads[t].session \in DOMAIN fbCalls THEN "append" ELSE "create"]
    /\ UNCHANGED <<fbCfg, fbCalls, fbClock, fbDone, fbOverlap>>
    /\ FeedbackFrame

\* `self._session_calls[resolved_session] = []`
TrackCreate(t) ==
    /\ fbThreads[t].pc = "create"
    /\ fbCalls' = (fbThreads[t].session :> <<>>) @@ fbCalls
    /\ fbThreads' = [fbThreads EXCEPT ![t].pc = "append"]
    /\ UNCHANGED <<fbCfg, fbClock, fbDone, fbOverlap>>
    /\ FeedbackFrame

\* `self._session_calls[resolved_session].append(now)`
TrackAppend(t) ==
    /\ fbThreads[t].pc = "append"
    /\ fbCalls' = [fbCalls EXCEPT ![fbThreads[t].session] = Append(@, fbThreads[t].now)]
    /\ fbThreads' = [fbThreads EXCEPT ![t].pc = "recent"]
    /\ UNCHANGED <<fbCfg, fbClock, fbDone, fbOverlap>>
    /\ FeedbackFrame

\* recent_calls is computed and the event is returned
TrackReturn(t) ==
    /\ fbThreads[t].pc = "recent"
    /\ fbThreads' = [fbThreads EXCEPT ![t] =
          [@ EXCEPT !.pc = "idle", !.status = "event",
                    !.count = Len(RecentCalls(fbCalls[fbThreads[t].session],
                                              fbThreads[t].now))]]
    /\ fbDone' = [fbDone EXCEPT ![fbThreads[t].session] = @ + 1]
    /\ UNCHANGED <<fbCfg, fbCalls, fbClock, fbOverlap>>
    /\ FeedbackFrame

FeedbackNext ==
    \/ Tick
    \/ \E t \in FbThreadIds : TrackDisabled(t)
    \/ \E t \in FbThreadIds : TrackBegin(t)
    \/ \E t \in FbThreadIds : TrackCheck(t)
    \/ \E t \in FbThreadIds : TrackCreate(t)
    \/ \E t \in FbThreadIds : TrackAppend(t)
    \/ \E t \in FbThreadIds : TrackReturn(t)

SpecFeedback == FeedbackInit /\ [][FeedbackNext]_vars

(* Properties of the feedback manager *)

\* the timestamps stored for a session
StoredCalls(calls, s) == IF s \in DOMAIN calls THEN calls[s] ELSE <<>>

\* C23: after any sequence of track_tool_call calls, one after the other,
\* every timestamp stored for a session lies within the refinement window
\* of the session's latest call.
Orig_C23_WindowPruned ==
    (FbRunning = {} /\ ~fbOverlap) =>
       \A s \in DOMAIN fbCalls :
          \A i \in 1..Len(fbCalls[s]) :
             fbCalls[s][Len(fbCalls[s])] - fbCalls[s][i] < RefinementWindow

\* a step changes the list of a session only on behalf of a call for it
OnlyOwnSession ==
    \A s \in FbSessions :
       StoredCalls(fbCalls', s) # StoredCalls(fbCalls, s) =>
          \E t \in FbRunning : fbThreads[t].session = s /\ fbThreads'[t] # fbThreads[t]

\* C28: under any interleaving of track_tool_call calls, once the calls have
\* returned a session's list holds one timestamp per call for that session,
\* and a call for one session never changes the list of another session.
Orig_C28_NoLostTimestamp ==
    /\ [](FbRunning = {} =>
             \A s \in DOMAIN fbDone : Len(StoredCalls(fbCalls, s)) = fbDone[s])
    /\ [][OnlyOwnSession]_vars

-----------------------------------------------------------------------------
(* Two requests of DSPyRunner.run in one process *)

MaxToolEvents == 2

RequestIds == {"r1", "r2"}

\* the model and the adapter that the playbook of each request names
RequestModel(r) == IF r = "r1" THEN "model-a" ELSE "model-b"

RequestAdapter(r) == IF r = "r1" THEN "chat" ELSE "json"

ConcurrentInit ==
    /\ rpc = "idle"
    /\ call = RunCall(NoRequest)
    /\ env = {}
    /\ resolved = NotResolved
    /\ RunIdle
    /\ ToolIdle
    /\ PureIdle
    /\ OptIdle
    /\ ConcurrentOthers
    /\ dspySettings = NoSettings
    /\ toolTraceEmitter = "None"
    /\ creq \in [RequestIds -> [pc : {"start"}, tool_trace_enabled : BOOLEAN,
                                trace_events : {<<>>}, emitted : {0},
                                used : {NoSettings}]]

ConcurrentFrame ==
    /\ ConcurrentOthersFrame
    /\ UNCHANGED resolverVars
    /\ UNCHANGED runVars
    /\ UNCHANGED toolVars
    /\ UNCHANGED pureVars
    /\ UNCHANGED optVars

\* _configure_dspy_lm_from_playbook: dspy.configure(lm=lm)
ReqConfigureLm(r) ==
    /\ creq[r].pc = "start"
    /\ dspySettings' = [dspySettings EXCEPT !.lm = RequestModel(r)]
    /\ creq' = [creq EXCEPT ![r].pc = "lm"]
    /\ UNCHANGED toolTraceEmitter
    /\ ConcurrentFrame

\* _configure_dspy_adapter: dspy.configure(lm=dspy.settings.lm, adapter=adapter)
ReqConfigureAdapter(r) ==
    /\ creq[r].pc = "lm"
    /\ dspySettings' = [lm |-> dspySettings.lm, adapter |-> RequestAdapter(r)]
    /\ creq' = [creq EXCEPT ![r].pc = "adapter"]
    /\ UNCHANGED toolTraceEmitter
    /\ ConcurrentFrame

\* set_tool_trace_emitter(_emit_tool_event), when the tool trace is enabled
ReqInstallEmitter(r) ==
    /\ creq[r].pc = "adapter"
    /\ toolTraceEmitter' = IF creq[r].tool_trace_enabled THEN r ELSE toolTraceEmitter
    /\ creq' = [creq EXCEPT ![r].pc = "program"]
    /\ UNCHANGED dspySettings
    /\ ConcurrentFrame

\* a tool of the request's program calls _emit_tool_trace: the installed
\* emitter appends the event to the trace_events of the request that owns it
ReqToolEvent(r) ==
    /\ creq[r].pc = "program"
    /\ creq[r].emitted < MaxToolEvents
    /\ creq' = [q \in RequestIds |->
          LET e == IF q = toolTraceEmitter
                   THEN [creq[q] EXCEPT !.trace_events = Append(@, r)]
                   ELSE creq[q]
          IN  IF q = r THEN [e EXCEPT !.emitted = @ + 1] ELSE e]
    /\ UNCHANGED <<dspySettings, toolTraceEmitter>>
    /\ ConcurrentFrame

\* the program calls the language model through dspy.settings
ReqCallLm(r) ==
    /\ creq[r].pc = "program"
    /\ creq' = [creq EXCEPT ![r].pc = "called", ![r].used = dspySettings]
    /\ UNCHANGED <<dspySettings, toolTraceEmitter>>
    /\ ConcurrentFrame

\* `finally: set_tool_trace_emitter(None)` and the return of the result
ReqFinish(r) ==
    /\ creq[r].pc = "called"
    /\ toolTraceEmitter' = IF creq[r].tool_trace_enabled THEN "None" ELSE toolTraceEmitter
    /\ creq' = [creq EXCEPT ![r].pc = "done"]
    /\ UNCHANGED dspySettings
    /\ ConcurrentFrame

ConcurrentNext ==
    \/ \E r \in RequestIds : ReqConfigureLm(r)
    \/ \E r \in RequestIds : ReqConfigureAdapter(r)
    \/ \E r \in RequestIds : ReqInstallEmitter(r)
    \/ \E r \in RequestIds : ReqToolEvent(r)
    \/ \E r \in RequestIds : ReqCallLm(r)
    \/ \E r \in RequestIds : ReqFinish(r)

SpecConcurrent == ConcurrentInit /\ [][ConcurrentNext]_vars

(* Properties of concurrent requests *)

\* what the request observes when it runs alone
AloneTrace(r) ==
    IF creq[r].tool_trace_enabled THEN [i \in 1..creq[r].emitted |-> r] ELSE <<>>

AloneSettings(r) == [lm |-> RequestModel(r), adapter |-> RequestAdapter(r)]

\* C24: whatever the interleaving of two requests, each request that has
\* finished observed its own trace events and its own model and adapter
\* configuration, as if it had run alone.
Orig_C24_NoSharedState ==
    \A r \in RequestIds :
       creq[r].pc = "done" =>
          /\ creq[r].trace_events = AloneTrace(r)
          /\ creq[r].used = AloneSettings(r)

-----------------------------------------------------------------------------
(* DSPyRunner._find_pipeline_file *)

\* self.agent_name
AgentName == "developer"

\* framework_variants, in the order of the list
FrameworkVariants ==
    <<"deepagents", "crewai", "microsoft", "openai", "google_adk", "pydantic_ai",
      "claude_sdk">>

\* f"{self.agent_name}_pipeline.py", as the parts joined by "_"
DefaultPipeline == <<AgentName, "pipeline.py">>

\* f"{self.agent_name}_{framework}_pipeline.py"
FrameworkPipeline(framework) == <<AgentName, framework, "pipeline.py">>

PipelineNotFound == <<"FileNotFoundError">>

\* the loop over framework_variants from position i on
RECURSIVE FirstVariant(_, _)
FirstVariant(dir, i) ==
    IF i > Len(FrameworkVariants) THEN PipelineNotFound
    ELSE IF FrameworkPipeline(FrameworkVariants[i]) \in dir.files
         THEN FrameworkPipeline(FrameworkVariants[i])
         ELSE FirstVariant(dir, i + 1)

FindPipelineFileMut(dir) ==
    IF ~dir.exists THEN PipelineNotFound
    ELSE IF FirstVariant(dir, 1) # PipelineNotFound THEN FirstVariant(dir, 1)
    ELSE IF DefaultPipeline \in dir.files THEN DefaultPipeline
    ELSE PipelineNotFound

FindPipelineFile(dir) ==
    IF ~dir.exists THEN PipelineNotFound
    ELSE IF DefaultPipeline \in dir.files THEN DefaultPipeline
    ELSE FirstVariant(dir, 1)

\* the files a pipelines directory may hold: the candidates, a pipeline of a
\* framework that is not in the list and the pipeline of another agent
DirectoryFiles ==
    {DefaultPipeline} \cup
    { FrameworkPipeline(FrameworkVariants[i]) : i \in 1..Len(FrameworkVariants) } \cup
    {FrameworkPipeline("langchain"), <<"reviewer", "pipeline.py">>}

PipelineInit ==
    /\ rpc = "idle"
    /\ call = RunCall(NoRequest)
    /\ env = {}
    /\ resolved = NotResolved
    /\ RunIdle
    /\ ToolIdle
    /\ PureIdle
    /\ OptIdle
    /\ PipelineOthers
    /\ fpIn \in {NoDirectory} \cup [exists : {TRUE}, files : SUBSET DirectoryFiles]
    /\ fpPc = "idle"
    /\ fpOut = NoPath

FindPipeline ==
    /\ fpPc = "idle"
    /\ fpOut' = FindPipelineFile(fpIn)
    /\ fpPc' = "done"
    /\ UNCHANGED fpIn
    /\ PipelineOthersFrame
    /\ UNCHANGED resolverVars
    /\ UNCHANGED runVars
    /\ UNCHANGED toolVars
    /\ UNCHANGED pureVars
    /\ UNCHANGED optVars

PipelineNext == FindPipeline

SpecPipeline == PipelineInit /\ [][PipelineNext]_vars

(* Properties of the pipeline lookup *)

VariantExists(i) == FrameworkPipeline(FrameworkVariants[i]) \in fpIn.files

-----------------------------------------------------------------------------
(* DSPyRunner.run: the optimization status *)

\* use_optimized and runtime_optimize after the three-way selection
SelectUse(a) ==
    IF a.runtime_optimize /\ a.optimized_exists /\ ~a.force_runtime
    THEN [use_optimized |-> TRUE, runtime_optimize |-> FALSE]
    ELSE IF a.force_runtime /\ a.optimized_exists
    THEN [use_optimized |-> FALSE, runtime_optimize |-> a.runtime_optimize]
    ELSE [use_optimized |-> a.use_optimization /\ a.optimized_exists /\ ~a.runtime_optimize,
          runtime_optimize |-> a.runtime_optimize]

\* optimization_status once use_optimized is known
SelectStatus(a) ==
    [used_pre_optimized |-> SelectUse(a).use_optimized,
     runtime_optimization |-> SelectUse(a).runtime_optimize,
     optimization_available |-> a.optimized_exists,
     optimization_used |-> SelectUse(a).use_optimized]

\* the native path: the status after `if use_optimized and hasattr(program, "load")`
NativeStatus(a, use, status) ==
    IF use.use_optimized /\ a.has_load /\ a.load_ok
    THEN [status EXCEPT !.used_pre_optimized = TRUE, !.optimization_used = TRUE]
    ELSE status

\* the legacy path: use_optimized after the load of the pre-optimized model
LegacyUse(a, use) == use.use_optimized /\ a.has_load /\ a.load_ok

\* the legacy path: the status after the load and the runtime optimization
LegacyStatus(a, use, status) ==
    LET afterLoad ==
            IF use.use_optimized /\ ~LegacyUse(a, use)
            THEN [status EXCEPT !.used_pre_optimized = FALSE, !.optimization_used = FALSE]
            ELSE status
    IN  IF use.runtime_optimize /\ ~LegacyUse(a, use) /\ a.train_ok
        THEN [afterLoad EXCEPT !.optimization_used = TRUE]
        ELSE afterLoad

StatusInputs ==
    [use_optimization : BOOLEAN, runtime_optimize : BOOLEAN, force_runtime : BOOLEAN,
     optimized_exists : BOOLEAN, native : BOOLEAN, has_load : BOOLEAN, load_ok : BOOLEAN,
     train_ok : BOOLEAN]

StatusInit ==
    /\ rpc = "idle"
    /\ call = RunCall(NoRequest)
    /\ env = {}
    /\ resolved = NotResolved
    /\ RunIdle
    /\ ToolIdle
    /\ PureIdle
    /\ OptIdle
    /\ StatusOthers
    /\ osIn \in StatusInputs
    /\ osPc = "idle"
    /\ osUse = NoSelection
    /\ osStatus = NoStatus
    /\ osLoaded = FALSE

StatusFrame ==
    /\ StatusOthersFrame
    /\ UNCHANGED resolverVars
    /\ UNCHANGED runVars
    /\ UNCHANGED toolVars
    /\ UNCHANGED pureVars
    /\ UNCHANGED optVars

\* from the start of run to `if use_optimized:` and its messages
SelectOptimized ==
    /\ osPc = "idle"
    /\ osUse' = SelectUse(osIn)
    /\ osStatus' = SelectStatus(osIn)
    /\ osPc' = "selected"
    /\ UNCHANGED <<osIn, osLoaded>>
    /\ StatusFrame

\* the module exposes build_program: program.load, the run and the result
LoadNative ==
    /\ osPc = "selected"
    /\ osIn.native
    /\ osLoaded' = (osUse.use_optimized /\ osIn.has_load /\ osIn.load_ok)
    /\ osStatus' = NativeStatus(osIn, osUse, osStatus)
    /\ osPc' = "done"
    /\ UNCHANGED <<osIn, osUse>>
    /\ StatusFrame

\* the class-based pipeline: pipeline.module.load, the runtime optimization,
\* the run and the result
LoadLegacy ==
    /\ osPc = "selected"
    /\ ~osIn.native
    /\ osLoaded' = LegacyUse(osIn, osUse)
    /\ osUse' = [osUse EXCEPT !.use_optimized = LegacyUse(osIn, osUse)]
    /\ osStatus' = LegacyStatus(osIn, osUse, osStatus)
    /\ osPc' = "done"
    /\ UNCHANGED osIn
    /\ StatusFrame

StatusNext ==
    \/ SelectOptimized
    \/ LoadNative
    \/ LoadLegacy

SpecStatus == StatusInit /\ [][StatusNext]_vars

(* Properties of the optimization status *)

\* C29: the status returned with a result reports used_pre_optimized or
\* optimization_used only if the persisted optimized state was loaded into
\* the program; both are false when the file is absent, optimization is not
\* requested, the program has no load hook or the load fails.
Orig_C29_StatusTruthful ==
    osPc = "done" =>
       /\ (osStatus.used_pre_optimized \/ osStatus.optimization_used) => osLoaded
       /\ (\/ ~osIn.optimized_exists
           \/ ~osIn.use_optimization /\ ~osIn.runtime_optimize
           \/ ~osIn.has_load
           \/ ~osIn.load_ok) =>
             (~osStatus.used_pre_optimized /\ ~osStatus.optimization_used)

=============================================================================
